---- MODULE Spec2Model ----
(***************************************************************************)
(* HoneyLogo: the animated turtle (components/Turtle.tsx, the copy in      *)
(* src/src/components/OutputPanel.tsx lines 27-786), the Run-button driver *)
(* of App.tsx, the evaluator of spec.ts (src/unnamed/part_011) and the     *)
(* recursive-descent parser of parser/parser.ts.                           *)
(*                                                                         *)
(* The browser's event loop is the scheduler: every handler (a click, a    *)
(* setTimeout callback, a requestAnimationFrame callback) runs to          *)
(* completion, and pending callbacks fire in any order.  One action of     *)
(* this module is one handler.                                             *)
(***************************************************************************)
EXTENDS Integers, Sequences, FiniteSets, TLC

VARIABLES
    \* ---- Turtle.tsx refs
    animationQueue,       \* animationQueue.current : pending tasks, FIFO
    animationInProgress,  \* animationInProgress.current
    animationSpeed,       \* animationSpeed.current
    angle,                \* angle.current (degrees, -90 = up)
    position,             \* position.current, from the centre of the canvas
    frames,               \* pending requestAnimationFrame(animateStep) callbacks
    waitTimers,           \* pending setTimeout callbacks of wait tasks
    \* ---- App.tsx state
    code,                 \* the editor's program (as parse returns it)
    isAnimating,          \* useState isAnimating
    execTimers,           \* pending setTimeout(executeWithDelay) callbacks
    runs,                 \* one record per started run: its Context and history
    output,               \* the output panel's messages since the last reset
    \* ---- history (not program state)
    nextId,               \* tasks submitted so far + 1
    events,               \* start/finish/frame events of tasks, in order
    active,               \* tasks started, not finished, not cancelled
    dropped,              \* tasks that were pending when cancelAnimation ran
    lastOp,               \* the handler that ran last
    clicks,               \* Run-button clicks so far
    \* ---- parser/parser.ts parse(): its locals
    tokens,               \* the tokens parse is given
    pi,                   \* i, the position of the loop
    commands,             \* commands
    errors,               \* the messages of errors
    escaped,              \* an exception has left parse
    returned,             \* parse has returned; code is its Program
    attempts,             \* history: the outcome of every iteration of the loop
    \* ---- parser/lexer.ts Lexer
    input,                \* this.input, the characters of the text
    words,                \* the words the loop of tokenize has still to read
    lexing,               \* "new" (constructed), "words" (in the loop), "done"
    \* ---- Turtle.tsx: the canvas and the pen
    raster,               \* the canvas without the turtle's sprite: RGBA pixels, row by row
    penMode,              \* penMode.current
    color,                \* color.current
    backgroundColor,      \* backgroundColor.current
    before,               \* history: the raster when the last fill task started
    fills,                \* history: the fill tasks that have run
    \* ---- the Go turtles
    goAngle,              \* turtle/turtle.go Turtle.angle
    goHeading,            \* the canvas turtle's Turtle.heading
    \* ---- Turtle.tsx: one forward task, measured along the heading
    fwdDistance,          \* distance
    fwdSteps,             \* steps
    fwdStep,              \* currentStep
    fwdOffset,            \* how far position.current is from startX, startY
    fwdStatus,            \* "idle", "moving" (a frame is requested), "done"
    \* ---- Turtle.tsx: one fill task, an iteration of its loop at a time
    fillImage,            \* data, the pixels of imageData
    fillStack,            \* stack
    fillTarget,           \* targetR, targetG, targetB, targetA
    fillWith,             \* fillColor as RGBA, or 'xor'
    fillWrites,           \* history: how often setFillColor wrote each pixel
    fillPops,             \* history: the iterations of the loop
    fillStatus            \* "idle", "loop", "done"

vars == <<animationQueue, animationInProgress, animationSpeed, angle, position, frames,
          waitTimers, code, isAnimating, execTimers, runs, output, nextId,
          events, active, dropped, lastOp, clicks,
          tokens, pi, commands, errors, escaped, returned, attempts,
          input, words, lexing, raster, penMode, color, backgroundColor, before, fills,
          goAngle, goHeading, fwdDistance, fwdSteps, fwdStep, fwdOffset, fwdStatus,
          fillImage, fillStack, fillTarget, fillWith, fillWrites, fillPops, fillStatus>>

turtleVars == <<animationQueue, animationInProgress, animationSpeed, angle, position,
          frames, waitTimers, code, isAnimating, execTimers, runs, output, nextId,
          events, active, dropped, lastOp, clicks>>

parseVars == <<tokens, pi, commands, errors, escaped, returned, attempts>>

lexVars == <<input, words, lexing>>

\* the variables of the parts that App's handlers and parse leave alone
fillVars == <<raster, penMode, color, backgroundColor, before, fills>>
goVars == <<goAngle, goHeading>>
fwdVars == <<fwdDistance, fwdSteps, fwdStep, fwdOffset, fwdStatus>>
loopVars == <<fillImage, fillStack, fillTarget, fillWith, fillWrites, fillPops, fillStatus>>
otherVars == <<fwdVars, loopVars>>
restVars == <<lexVars, fillVars, goVars, otherVars>>

\* ---- bounds of the model
MaxClicks == 2
MaxTokens == 4
\* the side of the square and the length of the round trip, in pixels
Side == 5
\* canvas.width and canvas.height, in pixels, and the fill tasks of a behaviour
CanvasWidth == 2
CanvasHeight == 3
MaxFills == 2
MaxTasks == 2
\* the operands of the expressions are 0..MaxOperand
MaxOperand == 2

Max(a, b) == IF a >= b THEN a ELSE b
Min(a, b) == IF a <= b THEN a ELSE b
Abs(a) == IF a < 0 THEN -a ELSE a
Range(s) == {s[i] : i \in 1..Len(s)}

(***************************************************************************)
(* Values (parser/types.ts ArgValue) and the command tree.  Every value,   *)
(* expression and command record has the same fields, so any two compare.  *)
(***************************************************************************)
\* A number is value / den in lowest terms with den > 0: a whole number has den 1,
\* and a quotient that is no whole number keeps its denominator.
Num(n) == [type |-> "Number", value |-> n, den |-> 1, text |-> ""]
Str(t) == [type |-> "String", value |-> 0, den |-> 1, text |-> t]
Undefined == [type |-> "Undefined", value |-> 0, den |-> 1, text |-> ""]

RECURSIVE GCD(_, _)
GCD(a, b) == IF b = 0 THEN a ELSE GCD(b, a % b)

\* the number n / d, d # 0
Quotient(n, d) ==
    LET g == GCD(Abs(n), Abs(d))
        sign == IF d < 0 THEN -1 ELSE 1
    IN  [type |-> "Number", value |-> (sign * n) \div g, den |-> (sign * d) \div g,
         text |-> ""]

\* expressions: NumberValue, StringValue, VariableValue, OperationValue, and the
\* CommandValue that wraps a procedure call in expression position
ENum(n) == [k |-> "num", v |-> n, name |-> "", args |-> <<>>]
EStr(t) == [k |-> "str", v |-> 0, name |-> t, args |-> <<>>]
EVar(x) == [k |-> "var", v |-> 0, name |-> x, args |-> <<>>]
EOp(o, l, r) == [k |-> "op", v |-> 0, name |-> o, args |-> <<l, r>>]
EProc(p, a) == [k |-> "pcall", v |-> 0, name |-> p, args |-> a]

\* commands
Cmd(k, name, params, args, body, orelse) ==
    [k |-> k, name |-> name, params |-> params, args |-> args, body |-> body,
     orelse |-> orelse]
Forward(x) == Cmd("forward", "", <<>>, <<x>>, <<>>, <<>>)
Back(x) == Cmd("back", "", <<>>, <<x>>, <<>>, <<>>)
Right(x) == Cmd("right", "", <<>>, <<x>>, <<>>, <<>>)
Wait(x) == Cmd("wait", "", <<>>, <<x>>, <<>>, <<>>)
ClearScreen == Cmd("clearscreen", "", <<>>, <<>>, <<>>, <<>>)
Home == Cmd("home", "", <<>>, <<>>, <<>>, <<>>)
SetHeading(x) == Cmd("setheading", "", <<>>, <<x>>, <<>>, <<>>)
HideTurtle == Cmd("hideturtle", "", <<>>, <<>>, <<>>, <<>>)
ShowTurtle == Cmd("showturtle", "", <<>>, <<>>, <<>>, <<>>)
Repeat(n, body) == Cmd("repeat", "", <<>>, <<n>>, body, <<>>)
Make(x, v) == Cmd("make", "", <<>>, <<x, v>>, <<>>, <<>>)
To(name, params, body) == Cmd("to", name, params, <<>>, body, <<>>)
Call(name, args) == Cmd("call", name, <<>>, args, <<>>, <<>>)
Count(x) == Cmd("count", "", <<>>, <<x>>, <<>>, <<>>)
Stop == Cmd("stop", "", <<>>, <<>>, <<>>, <<>>)
Output(x) == Cmd("output", "", <<>>, <<x>>, <<>>, <<>>)
Bye == Cmd("bye", "", <<>>, <<>>, <<>>, <<>>)
IfElse(c, body, orelse) == Cmd("ifelse", "", <<>>, <<c>>, body, orelse)

\* String.prototype.toLowerCase on the names the model uses
ToLower(n) ==
    CASE n = "A" -> "a"
      [] n = "S" -> "s"
      [] n = "P" -> "p"
      [] n = "Q" -> "q"
      [] n = "X" -> "x"
      [] OTHER -> n

EmptyMap == [x \in {} |-> Undefined]
MapSet(m, key, v) == [x \in DOMAIN m \cup {key} |-> IF x = key THEN v ELSE m[x]]

\* one event of a run's history
Ev(ev, d, sig, val) == [ev |-> ev, d |-> d, sig |-> sig, val |-> val]

\* one entry of a run's log of names: a procedure looked up ("getProcedure") or
\* defined ("define"), a call entered ("call") or left ("return"), a variable set
\* ("make") or looked up ("lookup"), with the depth of the Context it happened in
Lg(op, d, name, found, val, params, args) ==
    [op |-> op, d |-> d, name |-> name, found |-> found, val |-> val,
     params |-> params, args |-> args]

(***************************************************************************)
(* The evaluation state e: the current Context (vars, procs), the signal   *)
(* in flight ("ok" when none: a JavaScript exception is modelled as a      *)
(* result every caller passes on unless it catches it), the value          *)
(* returned or carried, the turtle calls made so far (ops), the messages   *)
(* sent to ctx.output (out), and the history (trace, log, depth).          *)
(***************************************************************************)
\* the history of a raise holds the value an Output carries, and the message of
\* an error
Throw(e, sig, val, msg) ==
    [e EXCEPT !.sig = sig, !.val = val, !.msg = msg,
              !.trace = Append(@, Ev("raise", e.depth, sig,
                                     IF sig = "error" THEN Str(msg) ELSE val))]

\* execute returns nothing
Done(e, what, val) ==
    [e EXCEPT !.val = Undefined, !.trace = Append(@, Ev("exec", e.depth, what, val))]

\* execute returns val
Returned(e, what, val) ==
    [e EXCEPT !.val = val, !.trace = Append(@, Ev("exec", e.depth, what, val))]

Logged(e, entry) == [e EXCEPT !.log = Append(@, entry)]

TurtleOp(e, kind, val) ==
    [Done(e, kind, val) EXCEPT
        !.ops = Append(@, [kind |-> kind,
                           arg |-> IF val.den = 1 THEN val.value
                                   ELSE [value |-> val.value, den |-> val.den]])]

\* a procedure Context that binds the parameters under their names as written
CreateProcedureContext_KeepsCase(e, params, args) ==
    LET n == Min(Len(params), Len(args))
    IN  [e EXCEPT !.depth = @ + 1,
                  !.vars = [x \in {params[i] : i \in 1..n} |->
                              args[CHOOSE j \in 1..n :
                                         /\ params[j] = x
                                         /\ \A j2 \in (j+1)..n : params[j2] # x]]]

\* a procedure Context that starts from the caller's variables
CreateProcedureContext_InheritsVariables(e, params, args) ==
    LET n == Min(Len(params), Len(args))
    IN  [e EXCEPT !.procs = [x \in DOMAIN e.procs |-> e.procs[x]],
                  !.vars = [x \in DOMAIN e.vars \cup {ToLower(params[i]) : i \in 1..n} |->
                              IF \E j \in 1..n : ToLower(params[j]) = x
                              THEN args[CHOOSE j \in 1..n :
                                         /\ ToLower(params[j]) = x
                                         /\ \A j2 \in (j+1)..n : ToLower(params[j2]) # x]
                              ELSE e.vars[x]],
                  !.depth = @ + 1]

\* a procedure Context that binds every parameter, the unmatched ones to 0
CreateProcedureContext_BindsAll(e, params, args) ==
    [e EXCEPT !.procs = [x \in DOMAIN e.procs |-> e.procs[x]],
              !.vars = [x \in {ToLower(params[i]) : i \in 1..Len(params)} |->
                          LET i == CHOOSE j \in 1..Len(params) :
                                     /\ ToLower(params[j]) = x
                                     /\ \A j2 \in (j+1)..Len(params) : ToLower(params[j2]) # x
                          IN  IF i <= Len(args) THEN args[i] ELSE Num(0)],
              !.depth = @ + 1]

\* Context.createProcedureContext: a fresh Context, the procedures copied,
\* min(params.length, args.length) parameters bound
CreateProcedureContext(e, params, args) ==
    LET n == Min(Len(params), Len(args))
    IN  [e EXCEPT !.procs = [x \in DOMAIN e.procs |-> e.procs[x]],
                  !.vars = [x \in {ToLower(params[i]) : i \in 1..n} |->
                              LET i == CHOOSE j \in 1..n :
                                         /\ ToLower(params[j]) = x
                                         /\ \A j2 \in (j+1)..n : ToLower(params[j2]) # x
                              IN  args[i]],
                  !.depth = @ + 1]

\* history: the body of a call starts in its Context e; kind is "call" for a call
\* that is a statement and "callInExpression" for one in expression position
Entered(e, kind, name, params, args) ==
    [e EXCEPT !.trace = Append(@, Ev(kind, e.depth, "ok", Undefined)),
              !.log = Append(@, Lg("call", e.depth, name, TRUE, Undefined, params, args))]

\* back in the caller's Context after a call: the callee's variables and its copy
\* of the procedure table are gone.  The history records how the call ended: with
\* a value (sig "ok") or with a signal passing on to the caller.
BackIn(caller, r) ==
    [r EXCEPT !.vars = caller.vars, !.procs = caller.procs, !.depth = caller.depth,
              !.trace = Append(@, Ev("result", r.depth, r.sig, r.val)),
              !.log = Append(@, Lg("return", r.depth, "", TRUE, Undefined, <<>>, <<>>))]

\* a division that rounds the quotient down to a whole number
ApplyOperator_WholeQuotient(o, l, r) ==
    LET a == l.value * r.den
        b == r.value * l.den
    IN  CASE o = "+" -> Quotient(a + b, l.den * r.den)
          [] o = "-" -> Quotient(a - b, l.den * r.den)
          [] o = "*" -> Quotient(l.value * r.value, l.den * r.den)
          [] o = "/" -> Num(a \div b)
          [] o = "<" -> Num(IF a < b THEN 1 ELSE 0)
          [] o = ">" -> Num(IF a > b THEN 1 ELSE 0)
          [] o = "<=" -> Num(IF a <= b THEN 1 ELSE 0)
          [] o = ">=" -> Num(IF a >= b THEN 1 ELSE 0)
          [] o = "==" -> Num(IF a = b THEN 1 ELSE 0)
          [] o = "!=" -> Num(IF a # b THEN 1 ELSE 0)

\* the switch of evaluateArgValue on the operator, on the numbers l and r (r is
\* not 0 when the operator is "/"); a and b are l and r over the common
\* denominator l.den * r.den
ApplyOperator(o, l, r) ==
    LET a == l.value * r.den
        b == r.value * l.den
    IN  CASE o = "+" -> Quotient(a + b, l.den * r.den)
          [] o = "-" -> Quotient(a - b, l.den * r.den)
          [] o = "*" -> Quotient(l.value * r.value, l.den * r.den)
          [] o = "/" -> Quotient(a, b)
          [] o = "<" -> Num(IF a < b THEN 1 ELSE 0)
          [] o = ">" -> Num(IF a > b THEN 1 ELSE 0)
          [] o = "<=" -> Num(IF a <= b THEN 1 ELSE 0)
          [] o = ">=" -> Num(IF a >= b THEN 1 ELSE 0)
          [] o = "==" -> Num(IF a = b THEN 1 ELSE 0)
          [] o = "!=" -> Num(IF a # b THEN 1 ELSE 0)

Operators == {"+", "-", "*", "/", "<", ">", "<=", ">=", "==", "!="}

\* The functions of the evaluator, of the turtle and of App call one another
\* through this table, by name: execute(cmd, e) is a call of Execute(cmd, e), and
\* so on.
RECURSIVE CallFunction(_, _)
execute(cmd, e) == CallFunction("execute", <<cmd, e>>)
evaluateArgValue(x, e) == CallFunction("evaluateArgValue", <<x, e>>)
executeAll(cmds, e) == CallFunction("executeAll", <<cmds, e>>)
evaluateArgs(args, e, acc) == CallFunction("evaluateArgs", <<args, e, acc>>)
repeatLoop(i, times, body, e) == CallFunction("repeatLoop", <<i, times, body, e>>)
procedureBody(cmds, e, lastResult) == CallFunction("procedureBody", <<cmds, e, lastResult>>)
procedureBodyInExpression(cmds, e, lastResult) == CallFunction("procedureBodyInExpression", <<cmds, e, lastResult>>)
procedureCall(cmd, e) == CallFunction("procedureCall", <<cmd, e>>)
procedureCallInExpression(x, e) == CallFunction("procedureCallInExpression", <<x, e>>)
processNextAnimation(s) == CallFunction("processNextAnimation", <<s>>)
runTask(s, t) == CallFunction("runTask", <<s, t>>)
animateStep(s, t, currentStep, steps, start, end) == CallFunction("animateStep", <<s, t, currentStep, steps, start, end>>)
animate(s, t) == CallFunction("animate", <<s, t>>)
cancelAnimation(s) == CallFunction("cancelAnimation", <<s>>)
turtleCall(s, op, run, cmd) == CallFunction("turtleCall", <<s, op, run, cmd>>)
turtleCalls(s, ops, run, cmd) == CallFunction("turtleCalls", <<s, ops, run, cmd>>)
afterExecute(s, e, r, index) == CallFunction("afterExecute", <<s, e, r, index>>)
executeWithDelay(s, r, index) == CallFunction("executeWithDelay", <<s, r, index>>)
handleExecuteCancel(s) == CallFunction("handleExecuteCancel", <<s>>)
handleExecuteRun(s, program) == CallFunction("handleExecuteRun", <<s, program>>)

\* StopError/OutputError/ByeError are raised by no command of spec.ts; the three
\* raising commands follow the specification's section 4.3
RaiseStop(e) == Throw(e, "stop", Undefined, "STOP command encountered")
RaiseOutput(e, val) == Throw(e, "output", val, "OUTPUT command encountered")
RaiseBye(e) == Throw(e, "bye", Undefined, "Program terminated by BYE command")

\* a catch clause that returns the last result on OUTPUT too
CatchInProcedureCall_OutputLast(r, lastResult) ==
    CASE r.sig = "stop" -> [r EXCEPT !.sig = "ok", !.val = lastResult, !.msg = ""]
      [] r.sig = "output" -> [r EXCEPT !.sig = "ok", !.val = lastResult, !.msg = ""]
      [] OTHER -> r

\* a catch clause that swallows every LogoError, BYE included
CatchInProcedureCall_CatchesAll(r, lastResult) ==
    CASE r.sig \in {"stop", "bye"} -> [r EXCEPT !.sig = "ok", !.val = lastResult, !.msg = ""]
      [] r.sig = "output" -> [r EXCEPT !.sig = "ok", !.msg = ""]
      [] OTHER -> r

\* the catch clause of parseProcedureCall's loop over proc.commands
CatchInProcedureCall(r, lastResult) ==
    CASE r.sig = "stop" -> [r EXCEPT !.sig = "ok", !.val = lastResult, !.msg = ""]
      [] r.sig = "output" -> [r EXCEPT !.sig = "ok", !.msg = ""]
      [] OTHER -> r

\* the catch clauses of the procedure call in expression position
CatchInExpression(r, lastResult) ==
    CASE r.sig = "output" -> [r EXCEPT !.sig = "ok", !.msg = ""]
      [] OTHER -> r

\* a statement call that wants a value as the call in expression position does
ProcedureBody_RequiresOutput(cmds, e, lastResult) ==
    IF cmds = <<>>
    THEN IF lastResult = Undefined
         THEN Throw(e, "error", Undefined, "does not output a value")
         ELSE [e EXCEPT !.val = lastResult]
    ELSE LET r == execute(Head(cmds), e)
         IN  IF r.sig = "ok"
             THEN procedureBody(Tail(cmds), r,
                                IF r.val # Undefined THEN r.val ELSE lastResult)
             ELSE CatchInProcedureCall(r, lastResult)

\* for (const cmd of proc.commands) of parseProcedureCall
ProcedureBody(cmds, e, lastResult) ==
    IF cmds = <<>>
    THEN [e EXCEPT !.val = lastResult]
    ELSE LET r == execute(Head(cmds), e)
         IN  IF r.sig = "ok"
             THEN procedureBody(Tail(cmds), r,
                                IF r.val # Undefined THEN r.val ELSE lastResult)
             ELSE CatchInProcedureCall(r, lastResult)

\* for (const cmd of proc.commands) of parsePrimaryExpression, case PROCEDURE
ProcedureBodyInExpression(cmds, e, lastResult) ==
    IF cmds = <<>>
    THEN IF lastResult = Undefined
         THEN Throw(e, "error", Undefined, "does not output a value")
         ELSE [e EXCEPT !.val = lastResult]
    ELSE LET r == execute(Head(cmds), e)
         IN  IF r.sig = "ok"
             THEN procedureBodyInExpression(Tail(cmds), r,
                                IF r.val # Undefined THEN r.val ELSE lastResult)
             ELSE CatchInExpression(r, lastResult)

\* args.map(arg => evaluateArgValue(ctx, arg))
EvaluateArgs(args, e, acc) ==
    IF args = <<>> \/ e.sig # "ok"
    THEN [e |-> e, vals |-> acc]
    ELSE LET r == evaluateArgValue(Head(args), e)
         IN  evaluateArgs(Tail(args), r, Append(acc, r.val))

\* history: ctx.getProcedure(procedureName)
GetProcedure(e, name) ==
    Logged(e, Lg("getProcedure", e.depth, ToLower(name), ToLower(name) \in DOMAIN e.procs,
                 Undefined, <<>>, <<>>))

\* the execute of the command parseProcedureCall builds
ProcedureCall(cmd, e) ==
    IF ToLower(cmd.name) \notin DOMAIN e.procs
    THEN Throw(GetProcedure(e, cmd.name), "error", Undefined, "Undefined procedure")
    ELSE LET proc == e.procs[ToLower(cmd.name)]
             a == evaluateArgs(cmd.args, GetProcedure(e, cmd.name), <<>>)
         IN  IF a.e.sig # "ok" THEN a.e
             ELSE BackIn(e, procedureBody(proc.commands,
                            Entered(CreateProcedureContext(a.e, proc.params, a.vals),
                                    "call", ToLower(cmd.name), proc.params, a.vals),
                            Undefined))

\* the execute of the CommandValue parsePrimaryExpression builds for a PROCEDURE token
ProcedureCallInExpression(x, e) ==
    IF ToLower(x.name) \notin DOMAIN e.procs
    THEN Throw(GetProcedure(e, x.name), "error", Undefined, "Undefined procedure")
    ELSE LET proc == e.procs[ToLower(x.name)]
             a == evaluateArgs(x.args, GetProcedure(e, x.name), <<>>)
         IN  IF a.e.sig # "ok" THEN a.e
             ELSE BackIn(e, procedureBodyInExpression(proc.commands,
                            Entered(CreateProcedureContext(a.e, proc.params, a.vals),
                                    "callInExpression", ToLower(x.name), proc.params,
                                    a.vals),
                            Undefined))

\* spec.ts evaluateArgValue
EvaluateArgValue(x, e) ==
    CASE x.k = "pcall" ->
           LET r == procedureCallInExpression(x, e)
           IN  IF r.sig # "ok" THEN r
               ELSE IF r.val = Undefined
                    THEN Throw(r, "error", Undefined, "did not return a value")
                    ELSE r
      [] x.k = "op" ->
           LET l == evaluateArgValue(x.args[1], e)
               r == IF l.sig = "ok" THEN evaluateArgValue(x.args[2], l) ELSE l
           IN  IF r.sig # "ok" THEN r
               ELSE IF l.val.type # "Number" \/ r.val.type # "Number"
                    THEN Throw(r, "error", Undefined, "requires number operands")
               ELSE IF x.name = "/" /\ r.val.value = 0
                    THEN Throw(r, "error", Undefined, "Division by zero")
               ELSE IF x.name \notin Operators
                    THEN Throw(r, "error", Undefined, "Unknown operator")
               ELSE [r EXCEPT !.val = ApplyOperator(x.name, l.val, r.val)]
      [] x.k = "var" ->
           IF ToLower(x.name) \in DOMAIN e.vars
           THEN [Logged(e, Lg("lookup", e.depth, ToLower(x.name), TRUE,
                              e.vars[ToLower(x.name)], <<>>, <<>>))
                   EXCEPT !.val = e.vars[ToLower(x.name)]]
           ELSE Throw(Logged(e, Lg("lookup", e.depth, ToLower(x.name), FALSE,
                                   Undefined, <<>>, <<>>)),
                      "error", Undefined, "Undefined variable")
      [] x.k = "num" -> [e EXCEPT !.val = Num(x.v)]
      [] x.k = "str" -> [e EXCEPT !.val = Str(x.name)]

\* the least whole number that is not less than the number v: i < v fails first
\* at i = Ceiling(v)
Ceiling(v) == -((-v.value) \div v.den)

\* a loop that tests i <= times
RepeatLoop_OneMore(i, times, body, e) ==
    IF i > times \/ e.sig # "ok" THEN e
    ELSE repeatLoop(i + 1, times, body, executeAll(body, e))

\* for (let i = 0; i < times; i++) for (const cmd of commandsToRepeat) cmd.execute(ctx)
RepeatLoop(i, times, body, e) ==
    IF i >= times \/ e.sig # "ok" THEN e
    ELSE repeatLoop(i + 1, times, body, executeAll(body, e))

ExecuteAll(cmds, e) ==
    IF cmds = <<>> \/ e.sig # "ok" THEN [e EXCEPT !.val = IF e.sig = "ok" THEN Undefined ELSE @]
    ELSE executeAll(Tail(cmds), execute(Head(cmds), e))

\* a built-in command with one Number argument that calls the turtle
NumberCommand(cmd, e, kind, sign) ==
    LET r == evaluateArgValue(cmd.args[1], e)
    IN  IF r.sig # "ok" THEN r
        ELSE IF r.val.type # "Number"
             THEN Throw(r, "error", Undefined, "command requires a number")
             ELSE TurtleOp(r, kind, Quotient(sign * r.val.value, r.val.den))

\* an IFELSE that runs the first block and then the second
IfElseExecute_BothBlocks(cmd, e) ==
    LET r == evaluateArgValue(cmd.args[1], e)
    IN  IF r.sig # "ok" THEN r
        ELSE IF r.val.type # "Number"
             THEN Throw(r, "error", Undefined, "IFELSE command requires a number")
             ELSE executeAll(cmd.orelse, executeAll(cmd.body, r))

\* the execute of IFELSE: if (cond) runs the first block, else the second
IfElseExecute(cmd, e) ==
    LET r == evaluateArgValue(cmd.args[1], e)
    IN  IF r.sig # "ok" THEN r
        ELSE IF r.val.type # "Number"
             THEN Throw(r, "error", Undefined, "IFELSE command requires a number")
             ELSE IF r.val.value # 0
                  THEN executeAll(cmd.body, r)
                  ELSE executeAll(cmd.orelse, r)

\* command.execute(ctx), by command
Execute(cmd, e) ==
    CASE cmd.k = "forward" -> NumberCommand(cmd, e, "forward", 1)
      [] cmd.k = "back" -> NumberCommand(cmd, e, "forward", -1)
      [] cmd.k = "right" -> NumberCommand(cmd, e, "right", 1)
      [] cmd.k = "wait" ->
           LET r == NumberCommand(cmd, e, "wait", 1)
           IN  IF r.sig # "ok" THEN r
               ELSE [r EXCEPT !.out = Append(@, "Waiting"), !.hasOutput = TRUE]
      [] cmd.k = "clearscreen" -> TurtleOp(e, "clear", Num(0))
      [] cmd.k = "home" -> TurtleOp(e, "home", Num(0))
      [] cmd.k = "setheading" -> NumberCommand(cmd, e, "setHeading", 1)
      [] cmd.k = "hideturtle" -> TurtleOp(e, "hideTurtle", Num(0))
      [] cmd.k = "showturtle" -> TurtleOp(e, "showTurtle", Num(0))
      [] cmd.k = "repeat" ->
           LET r == evaluateArgValue(cmd.args[1], e)
           IN  IF r.sig # "ok" THEN r
               ELSE IF r.val.type # "Number"
                    THEN Throw(r, "error", Undefined, "REPEAT command requires a number")
                    ELSE repeatLoop(0, Ceiling(r.val), cmd.body,
                                    [r EXCEPT !.val = Undefined])
      [] cmd.k = "make" ->
           LET n == evaluateArgValue(cmd.args[1], e)
               v == IF n.sig = "ok" THEN evaluateArgValue(cmd.args[2], n) ELSE n
           IN  IF v.sig # "ok" THEN v
               ELSE IF n.val.type # "String" \/ v.val.type # "Number"
                    THEN Throw(v, "error", Undefined, "MAKE command requires a string and a number")
                    ELSE [Logged(Done(v, "make", v.val),
                                 Lg("make", v.depth, ToLower(n.val.text), TRUE, v.val,
                                    <<>>, <<>>)) EXCEPT
                            !.vars = MapSet(v.vars, ToLower(n.val.text), v.val),
                            !.out = Append(@, "Set variable"), !.hasOutput = TRUE]
      [] cmd.k = "to" ->
           [Logged(Done(e, "to", Undefined),
                   Lg("define", e.depth, ToLower(cmd.name), TRUE, Undefined,
                      cmd.params, <<>>)) EXCEPT
              !.procs = MapSet(e.procs, ToLower(cmd.name),
                               [params |-> cmd.params, commands |-> cmd.body])]
      [] cmd.k = "count" ->
           LET r == evaluateArgValue(cmd.args[1], e)
           IN  IF r.sig # "ok" THEN r
               ELSE IF r.val.type = "String"
                    THEN Returned(r, "count", Num(Len(r.val.text)))
                    ELSE Throw(r, "error", Undefined, "COUNT requires a list or word")
      [] cmd.k = "call" -> procedureCall(cmd, e)
      [] cmd.k = "stop" -> RaiseStop(e)
      [] cmd.k = "output" ->
           LET r == evaluateArgValue(cmd.args[1], e)
           IN  IF r.sig # "ok" THEN r ELSE RaiseOutput(r, r.val)
      [] cmd.k = "bye" -> RaiseBye(e)
      [] cmd.k = "ifelse" -> IfElseExecute(cmd, e)

(***************************************************************************)
(* The animated turtle.  s is the record of every variable a handler can   *)
(* change (State below); each operator returns the record after the code   *)
(* it models has run.                                                      *)
(***************************************************************************)
Task(id, kind, arg, run, cmd) ==
    [id |-> id, kind |-> kind, arg |-> arg, run |-> run, cmd |-> cmd]

\* history: what happened to task t, and the turtle's pose at that moment
TaskEv(ev, t, s) ==
    [ev |-> ev, id |-> t.id, run |-> t.run, cmd |-> t.cmd, kind |-> t.kind, arg |-> t.arg,
     position |-> s.position, angle |-> s.angle]

\* history: task t is taken from the queue and called
Started(s, t) ==
    [s EXCEPT !.events = Append(@, TaskEv("start", t, s)), !.active = @ \cup {t.id}]

\* isTurtleVisible.current: true at first, and written only by the tasks of
\* hideTurtle (false), showTurtle (true) and clear (true) when they are called, so
\* it is what the last of these tasks to be called wrote
IsTurtleVisible(s) ==
    LET writes == {i \in 1..Len(s.events) :
                      /\ s.events[i].ev = "start"
                      /\ s.events[i].kind \in {"hideTurtle", "showTurtle", "clear"}}
    IN  \/ writes = {}
        \/ s.events[CHOOSE i \in writes : \A j \in writes : j <= i].kind # "hideTurtle"

\* history: task t has completed (it hands over to processNextAnimation, or returns)
Finished(s, t) ==
    [s EXCEPT !.events = Append(@, TaskEv("finish", t, s)), !.active = @ \ {t.id}]

\* steps without the floor of 5
Steps_NoFloor(distance, speed) == Min(Abs(distance), speed * 5)

\* const steps = Math.max(5, Math.min(Math.abs(distance), animationSpeed.current * 5))
Steps(distance, speed) == Max(5, Min(Abs(distance), speed * 5))

\* Math.abs, Math.min, Math.max and < of numbers that need not be whole
NumAbs(v) == Quotient(Abs(v.value), v.den)
NumLess(a, b) == a.value * b.den < b.value * a.den
NumMin(a, b) == IF NumLess(b, a) THEN b ELSE a
NumMax(a, b) == IF NumLess(a, b) THEN b ELSE a

\* const steps = Math.max(5, Math.min(Math.abs(distance), animationSpeed.current * 5))
\* for a distance that need not be whole: steps is then no whole number either
NumberSteps(distance, speed) == NumMax(Num(5), NumMin(NumAbs(distance), Num(speed * 5)))

\* distance * progress with progress = currentStep / steps: how far along the
\* heading newX, newY is from startX, startY (endX - startX is distance * cos,
\* endY - startY is distance * sin)
Progressed(distance, currentStep, steps) ==
    Quotient(distance.value * currentStep * steps.den, distance.den * steps.value)

\* Math.cos and Math.sin of a whole number of degrees, to the nearest whole number:
\* exact at the multiples of 90
Cos(a) ==
    LET m == a % 360
    IN  IF m <= 60 \/ m >= 300 THEN 1 ELSE IF m >= 120 /\ m <= 240 THEN -1 ELSE 0
Sin(a) == Cos(a - 90)

\* a point of the canvas, counted from its centre (canvas.width / 2, canvas.height / 2),
\* where the turtle is put when the canvas is set up and by clear
Point(x, y) == [x |-> x, y |-> y]

\* startX + (endX - startX) * progress, progress = currentStep / steps, to the pixel
Along(start, end, currentStep, steps) ==
    Point(start.x + ((end.x - start.x) * currentStep) \div steps,
          start.y + ((end.y - start.y) * currentStep) \div steps)

\* animateStep of forward: one frame of a motion task; start and end are the
\* startX, startY, endX, endY of the closure
AnimateStep(s, t, currentStep, steps, start, end) ==
    IF currentStep >= steps
    THEN processNextAnimation(Finished(s, t))
    ELSE IF ~s.inProgress
    THEN s
    ELSE [s EXCEPT !.position = Along(start, end, currentStep + 1, steps),
                   !.frames = @ \cup {[task |-> t, currentStep |-> currentStep + 1,
                                       steps |-> steps, start |-> start, end |-> end]},
                   !.active = @ \cup {t.id}]

\* the closure a turtle method queued, called by processNextAnimation
RunTask(s, t) ==
    LET s1 == Started(s, t)
    IN  CASE t.kind = "forward" ->
               animateStep(s1, t, 0, Steps(t.arg, s1.speed), s1.position,
                           Point(s1.position.x + t.arg * Cos(s1.angle),
                                 s1.position.y + t.arg * Sin(s1.angle)))
          [] t.kind = "setPosition" ->
               LET end == Point(t.arg, 0 - t.arg)
               IN  animateStep(s1, t, 0,
                               Steps(Abs(end.x - s1.position.x) + Abs(end.y - s1.position.y),
                                     s1.speed),
                               s1.position, end)
          [] t.kind = "right" ->
               processNextAnimation(Finished([s1 EXCEPT !.angle = @ + t.arg], t))
          [] t.kind = "setHeading" ->
               processNextAnimation(Finished([s1 EXCEPT !.angle = t.arg - 90], t))
          [] t.kind \in {"hideTurtle", "showTurtle"} ->
               processNextAnimation(Finished(s1, t))
          [] t.kind = "wait" -> [s1 EXCEPT !.waits = @ \cup {t}]
          [] t.kind = "clear" ->
               Finished([s1 EXCEPT !.position = Point(0, 0), !.angle = -90,
                                   !.queue = <<>>, !.inProgress = FALSE], t)

\* processNextAnimation; onAnimationEnd is App's handleAnimationEnd
ProcessNextAnimation(s) ==
    IF Len(s.queue) > 0
    THEN runTask([s EXCEPT !.queue = Tail(@)], Head(s.queue))
    ELSE [s EXCEPT !.inProgress = FALSE, !.isAnimating = FALSE]

\* animate(func): push, and start draining when nothing is in progress
Animate(s, t) ==
    LET s1 == [s EXCEPT !.queue = Append(@, t), !.nextId = @ + 1,
                        !.events = Append(@, TaskEv("submit", t, s))]
    IN  IF ~s1.inProgress
        THEN processNextAnimation([s1 EXCEPT !.inProgress = TRUE])
        ELSE s1

\* cancelAnimation that forgets to empty the queue
CancelAnimation_KeepsQueue(s) ==
    [s EXCEPT !.inProgress = FALSE]

\* turtleInterface.cancelAnimation
CancelAnimation(s) ==
    [s EXCEPT !.inProgress = FALSE, !.queue = <<>>]

\* a method of the turtle handle called by a command: forward, right, wait, clear
\* queue their task; home sets angle.current and calls setPosition(0, 0), which
\* queues its task (the task's arg is the x and the y it was called with)
\* hideTurtle and showTurtle queue their task only when isTurtleVisible.current is not
\* yet what they are to make it
TurtleCall(s, op, run, cmd) ==
    CASE op.kind = "home" ->
           animate([s EXCEPT !.angle = -90], Task(s.nextId, "setPosition", 0, run, cmd))
      [] op.kind = "hideTurtle" ->
           IF IsTurtleVisible(s)
           THEN animate(s, Task(s.nextId, op.kind, op.arg, run, cmd))
           ELSE s
      [] op.kind = "showTurtle" ->
           IF ~IsTurtleVisible(s)
           THEN animate(s, Task(s.nextId, op.kind, op.arg, run, cmd))
           ELSE s
      [] OTHER -> animate(s, Task(s.nextId, op.kind, op.arg, run, cmd))

TurtleCalls(s, ops, run, cmd) ==
    IF ops = <<>> THEN s
    ELSE turtleCalls(turtleCall(s, Head(ops), run, cmd), Tail(ops), run, cmd)

(***************************************************************************)
(* The flood fill of the turtle (fill, OutputPanel.tsx 632-757).  The       *)
(* raster is imageData.data pixel by pixel: pixel number y * width + x is   *)
(* raster[y * width + x + 1], an RGBA tuple.  eraseTurtle and drawTurtle    *)
(* take the sprite off the canvas before the pixels are read and put it     *)
(* back after they are written, so the raster is the canvas without it.     *)
(***************************************************************************)
\* the RGBA of a colour string, as a 1 x 1 canvas filled with it gives it
Rgba(colorString) ==
    CASE colorString = "#000000" -> <<0, 0, 0, 255>>
      [] colorString = "#ffffff" -> <<255, 255, 255, 255>>
      [] colorString = "#ff0000" -> <<255, 0, 0, 255>>

\* a pixel of a canvas nothing was drawn on
Transparent == <<0, 0, 0, 0>>

\* what is no RGBA: the fill colour 'xor' of the reverse mode, and the undefined
\* that reading outside the array gives
Xor == <<"xor">>
NoPixel == <<"undefined">>

\* Math.round(position.current.x), Math.round(position.current.y): the turtle's
\* pixel (position is counted from the centre, width / 2 and height / 2)
Pixel(p) == Point(p.x + (CanvasWidth + 1) \div 2, p.y + (CanvasHeight + 1) \div 2)

\* data[index .. index + 3], undefined outside the array
PixelAt(data, k) == IF k \in 0..(Len(data) - 1) THEN data[k + 1] ELSE NoPixel

\* fillColor by penMode, as RGBA
FillColor(mode, pen, background) ==
    CASE mode = "paint" -> Rgba(pen)
      [] mode = "erase" -> Rgba(background)
      [] OTHER -> Xor

\* a matchesTarget that leaves the alpha out of the comparison
MatchesTarget_IgnoresAlpha(data, k, target) ==
    /\ data[k + 1][1] = target[1]
    /\ data[k + 1][2] = target[2]
    /\ data[k + 1][3] = target[3]

\* matchesTarget(i)
MatchesTarget(data, k, target) == data[k + 1] = target

\* a setFillColor that inverts the pixel whatever the fill colour is
SetFillColor_AlwaysInverts(pixel, fillColor) ==
    <<255 - pixel[1], 255 - pixel[2], 255 - pixel[3], pixel[4]>>

\* setFillColor(i): the pixel after it
SetFillColor(pixel, fillColor) ==
    IF fillColor = Xor
    THEN <<255 - pixel[1], 255 - pixel[2], 255 - pixel[3], pixel[4]>>
    ELSE fillColor

\* neighbours that include the four diagonal ones
Neighbours_WithDiagonals(cur) ==
    <<Point(cur.x + 1, cur.y), Point(cur.x - 1, cur.y),
      Point(cur.x, cur.y + 1), Point(cur.x, cur.y - 1),
      Point(cur.x + 1, cur.y + 1), Point(cur.x - 1, cur.y - 1),
      Point(cur.x - 1, cur.y + 1), Point(cur.x + 1, cur.y - 1)>>

\* the pixels the loop pushes after it filled cur: right, left, down, up
Neighbours(cur) ==
    <<Point(cur.x + 1, cur.y), Point(cur.x - 1, cur.y),
      Point(cur.x, cur.y + 1), Point(cur.x, cur.y - 1)>>

\* while (stack.length > 0): the data when the loop ends
RECURSIVE FillLoop(_, _, _, _)
FillLoop(data, stack, target, fillColor) ==
    IF stack = <<>> THEN data
    ELSE LET cur == stack[Len(stack)]
             rest == SubSeq(stack, 1, Len(stack) - 1)
             pixelIndex == cur.y * CanvasWidth + cur.x
         IN  IF cur.x < 0 \/ cur.x >= CanvasWidth \/ cur.y < 0 \/ cur.y >= CanvasHeight
             THEN FillLoop(data, rest, target, fillColor)
             ELSE IF ~MatchesTarget(data, pixelIndex, target)
             THEN FillLoop(data, rest, target, fillColor)
             ELSE FillLoop([data EXCEPT ![pixelIndex + 1] = SetFillColor(@, fillColor)],
                           rest \o Neighbours(cur),
                           target, fillColor)

\* the task fill queues: the data it puts back on the canvas (the data as it was
\* when the task returns early)
Fill(data, p, mode, pen, background) ==
    LET seed == Pixel(p)
        fillColor == FillColor(mode, pen, background)
        target == PixelAt(data, seed.y * CanvasWidth + seed.x)
    IN  IF fillColor # Xor /\ target = fillColor
        THEN data
        ELSE FillLoop(data, <<seed>>, target, fillColor)

(***************************************************************************)
(* The Go turtles: turtle/turtle.go (the interpreter's) and the canvas      *)
(* turtle of package turtle.  Angles are whole numbers of degrees, which    *)
(* float64 and float32 hold exactly.                                        *)
(***************************************************************************)
\* math.Mod(x, y) for y > 0: the remainder of the truncated division, with the
\* sign of x
Mod(x, y) == IF x >= 0 THEN x % y ELSE -((-x) % y)

\* homeHeading := float32(-90)
homeHeading == -90

\* func (t *Turtle) Left(angle float64) of turtle/turtle.go: the new t.angle
TurtleLeft(t, a) == Mod(t - a + 360, 360)

\* func (t *Turtle) Right(angle float64) of turtle/turtle.go: the new t.angle
TurtleRight(t, a) == Mod(t + a, 360)

\* func (t *Turtle) Left(angle float32) of the canvas turtle: the new t.heading
CanvasLeft(t, a) == Mod(t - a, 360)

\* func (t *Turtle) Right(angle float32) of the canvas turtle: the new t.heading
CanvasRight(t, a) == Mod(t + a, 360)

(***************************************************************************)
(* parser/parser.ts: recursive descent over the lexer's tokens.  Positions *)
(* are 0-based as in the code: token number start is tokens[start + 1].    *)
(* A parse function returns [value, consumed], returns [null, 0] or throws *)
(* a ParserError: the st field tells which.                                *)
(***************************************************************************)
Tok(type, value) == [type |-> type, value |-> value]

\* new Program(commands, source) with program.errors
Program(cmds, errs) == [commands |-> cmds, errors |-> errs]

\* the values of parser/types.ts that the evaluator's model has no use for
EList(items) == [k |-> "list", v |-> 0, name |-> "", args |-> items]
EBlock(cmds) == [k |-> "block", v |-> 0, name |-> "", args |-> cmds]
ECmd(c) == [k |-> "cmd", v |-> 0, name |-> "", args |-> <<c>>]

\* get type() of the ArgValue classes
Type(x) ==
    CASE x.k = "str" -> "String"
      [] x.k = "list" -> "List"
      [] x.k = "block" -> "Block"
      [] OTHER -> "Number"

\* x instanceof CommandValue
IsCommandValue(x) == x.k \in {"cmd", "pcall"}

NoNode == ENum(0)
Ok(node, n) == [st |-> "ok", node |-> node, n |-> n, msg |-> ""]
Null == [st |-> "null", node |-> NoNode, n |-> 0, msg |-> ""]
ParserError(m) == [st |-> "throw", node |-> NoNode, n |-> 0, msg |-> m]

\* parseFloat(token.value) on the number literals of the model
ParseFloat(text) ==
    CASE text = "0" -> 0
      [] text = "1" -> 1
      [] text = "2" -> 2
      [] text = "3" -> 3
      [] text = "4" -> 4
      [] text = "5" -> 5
      [] text = "6" -> 6
      [] text = "7" -> 7
      [] text = "10" -> 10
      [] text = "45" -> 45
      [] text = "90" -> 90
      [] OTHER -> 0

\* commandMap.get(commandName): the entries of LOGO_COMMANDS the model uses
CommandNames == {"forward", "back", "right", "wait", "home", "repeat", "ifelse", "random"}
CommandSpec(name) ==
    CASE name = "forward" -> [argumentTypes |-> <<"Number">>, returns |-> FALSE]
      [] name = "back" -> [argumentTypes |-> <<"Number">>, returns |-> FALSE]
      [] name = "right" -> [argumentTypes |-> <<"Number">>, returns |-> FALSE]
      [] name = "wait" -> [argumentTypes |-> <<"Number">>, returns |-> FALSE]
      [] name = "home" -> [argumentTypes |-> <<>>, returns |-> FALSE]
      [] name = "repeat" -> [argumentTypes |-> <<"Number", "Block">>, returns |-> FALSE]
      [] name = "ifelse" ->
           [argumentTypes |-> <<"Number", "Block", "Block">>, returns |-> FALSE]
      [] name = "random" -> [argumentTypes |-> <<"Number">>, returns |-> TRUE]

(***************************************************************************)
(* parser/lexer.ts (src/unnamed/part_002, from line 195).  A text is the   *)
(* sequence of its characters; the value of a token is a string.           *)
(***************************************************************************)
WhiteSpace == {" ", "\n", "\t"}
Digits == {"0", "1", "2", "3", "4", "5", "6", "7", "8", "9"}
UpperCaseLetters ==
    <<"A", "B", "C", "D", "E", "F", "G", "H", "I", "J", "K", "L", "M", "N", "O", "P", "Q",
      "R", "S", "T", "U", "V", "W", "X", "Y", "Z">>
LowerCaseLetters ==
    <<"a", "b", "c", "d", "e", "f", "g", "h", "i", "j", "k", "l", "m", "n", "o", "p", "q",
      "r", "s", "t", "u", "v", "w", "x", "y", "z">>

\* the string of a sequence of characters
RECURSIVE Text(_)
Text(w) == IF w = <<>> THEN "" ELSE Head(w) \o Text(Tail(w))

\* word.toLowerCase(), character by character
LowerChar(c) ==
    IF \E i \in DOMAIN UpperCaseLetters : UpperCaseLetters[i] = c
    THEN LowerCaseLetters[CHOOSE i \in DOMAIN UpperCaseLetters : UpperCaseLetters[i] = c]
    ELSE c
ToLowerCase(w) == [i \in DOMAIN w |-> LowerChar(w[i])]

\* input.trim() of the constructor
RECURSIVE TrimStart(_)
TrimStart(t) == IF t # <<>> /\ Head(t) \in WhiteSpace THEN TrimStart(Tail(t)) ELSE t
RECURSIVE TrimEnd(_)
TrimEnd(t) ==
    IF t # <<>> /\ t[Len(t)] \in WhiteSpace THEN TrimEnd(SubSeq(t, 1, Len(t) - 1)) ELSE t
Trim(t) == TrimEnd(TrimStart(t))

\* .replace(/c/g, ' c ') for the characters c of cs
RECURSIVE Spaced(_, _)
Spaced(t, cs) ==
    IF t = <<>> THEN <<>>
    ELSE IF Head(t) \in cs THEN <<" ", Head(t), " ">> \o Spaced(Tail(t), cs)
    ELSE <<Head(t)>> \o Spaced(Tail(t), cs)

\* .replace(/([<>]=?|==|!=)/g, ' $1 ')
RECURSIVE SpacedComparisons(_)
SpacedComparisons(t) ==
    IF t = <<>> THEN <<>>
    ELSE IF Len(t) >= 2 /\ Head(t) \in {"<", ">", "=", "!"} /\ t[2] = "="
    THEN <<" ", t[1], t[2], " ">> \o SpacedComparisons(SubSeq(t, 3, Len(t)))
    ELSE IF Head(t) \in {"<", ">"}
    THEN <<" ", Head(t), " ">> \o SpacedComparisons(Tail(t))
    ELSE <<Head(t)>> \o SpacedComparisons(Tail(t))

\* .split(/\s+/).filter(word => word.length > 0): word is the word being read
RECURSIVE Split(_, _)
Split(t, word) ==
    IF t = <<>> THEN IF word = <<>> THEN <<>> ELSE <<word>>
    ELSE IF Head(t) \in WhiteSpace
    THEN IF word = <<>> THEN Split(Tail(t), <<>>) ELSE <<word>> \o Split(Tail(t), <<>>)
    ELSE Split(Tail(t), Append(word, Head(t)))

\* const words = this.input.replace(...)....split(/\s+/).filter(...)
Words(t) ==
    Split(SpacedComparisons(Spaced(Spaced(Spaced(Spaced(Spaced(t, {"["}), {"]"}), {"("}),
                                          {")"}), {"+", "-", "*", "/"})),
          <<>>)

\* /^-?\d+(\.\d+)?$/.test(word)
AllDigits(w) == w # <<>> /\ \A i \in DOMAIN w : w[i] \in Digits
IsNumber(w) ==
    LET u == IF w # <<>> /\ Head(w) = "-" THEN Tail(w) ELSE w
    IN  \/ AllDigits(u)
        \/ \E i \in DOMAIN u :
              /\ u[i] = "."
              /\ AllDigits(SubSeq(u, 1, i - 1))
              /\ AllDigits(SubSeq(u, i + 1, Len(u)))

\* commandMap.get(lowerWord).name.toLowerCase(), "" when commandMap has no such
\* key: the names and aliases of the commands of CommandNames
CommandMap(lowerWord) ==
    CASE lowerWord \in {"forward", "fd"} -> "forward"
      [] lowerWord \in {"back", "bk"} -> "back"
      [] lowerWord \in {"right", "rt"} -> "right"
      [] lowerWord \in {"wait", "wt"} -> "wait"
      [] lowerWord = "home" -> "home"
      [] lowerWord \in {"repeat", "rp"} -> "repeat"
      [] lowerWord = "ifelse" -> "ifelse"
      [] lowerWord \in {"random", "rnd"} -> "random"
      [] OTHER -> ""

\* the body of the loop of tokenize: the token of one word
TokenOf(word) ==
    LET lowerWord == Text(ToLowerCase(word))
    IN  IF IsNumber(word) THEN Tok("NUMBER", Text(word))
        ELSE IF Head(word) = "\"" THEN Tok("STRING", Text(Tail(word)))
        ELSE IF Head(word) = ":" THEN Tok("VARIABLE", Text(Tail(word)))
        ELSE IF Text(word) \in Operators THEN Tok("OPERATOR", Text(word))
        ELSE IF Text(word) = "(" THEN Tok("OPEN_PARENTHESIS", "(")
        ELSE IF Text(word) = ")" THEN Tok("CLOSE_PARENTHESIS", ")")
        ELSE IF Text(word) = "[" THEN Tok("OPEN_BRACKET", "[")
        ELSE IF Text(word) = "]" THEN Tok("CLOSE_BRACKET", "]")
        ELSE IF lowerWord = "to" THEN Tok("TO", "TO")
        ELSE IF lowerWord = "end" THEN Tok("END", "END")
        ELSE IF CommandMap(lowerWord) # "" THEN Tok("COMMAND", CommandMap(lowerWord))
        ELSE Tok("PROCEDURE", lowerWord)

\* tokenize as a function of the text
Tokenize(t) == LET ws == Words(Trim(t)) IN [i \in DOMAIN ws |-> TokenOf(ws[i])]

\* commandSpec.createCommand(...args)
CreateCommand(name, args) ==
    IF name = "repeat"
    THEN Repeat(args[1], args[2].args)
    ELSE IF name = "ifelse"
    THEN IfElse(args[1], args[2].args, args[3].args)
    ELSE Cmd(name, "", <<>>, args, <<>>, <<>>)

\* The functions of the parser call one another through this table, by name:
\* parseExpression(argType, toks, start) is a call of ParseExpression(argType, toks,
\* start), and so on.
RECURSIVE CallParser(_, _)
parseExpression(argType, toks, start) == CallParser("parseExpression", <<argType, toks, start>>)
parsePrimaryExpression(toks, start) == CallParser("parsePrimaryExpression", <<toks, start>>)
parseBinaryExpression(argType, toks, start, leftValue, leftConsumed) == CallParser("parseBinaryExpression", <<argType, toks, start, leftValue, leftConsumed>>)
parseList(toks, start) == CallParser("parseList", <<toks, start>>)
parseListItems(toks, start, i, items) == CallParser("parseListItems", <<toks, start, i, items>>)
parseBlock(toks, start) == CallParser("parseBlock", <<toks, start>>)
parseBlockCommands(toks, start, i, cmds) == CallParser("parseBlockCommands", <<toks, start, i, cmds>>)
parseCommand(toks, start) == CallParser("parseCommand", <<toks, start>>)
parseArguments(commandName, toks, start, k, args, consumed) == CallParser("parseArguments", <<commandName, toks, start, k, args, consumed>>)
parseArgument(argType, commandName, toks, pos) == CallParser("parseArgument", <<argType, commandName, toks, pos>>)
parseProcedureDefinition(toks, start) == CallParser("parseProcedureDefinition", <<toks, start>>)
parseProcedureBody(toks, start, procedureName, paramNames, currentPos, cmds) == CallParser("parseProcedureBody", <<toks, start, procedureName, paramNames, currentPos, cmds>>)
parseProcedureCall(toks, start) == CallParser("parseProcedureCall", <<toks, start>>)
parseCallArguments(argType, toks, start, consumed, args) == CallParser("parseCallArguments", <<argType, toks, start, consumed, args>>)

ParseExpression(argType, toks, start) ==
    IF start >= Len(toks)
    THEN ParserError("Unexpected end of input while parsing expression")
    ELSE LET l == parsePrimaryExpression(toks, start)
         IN  IF l.st = "throw" THEN l
             ELSE IF l.st = "null" THEN Null
             ELSE IF start + l.n < Len(toks) /\ toks[start + l.n + 1].type = "OPERATOR"
             THEN parseBinaryExpression(argType, toks, start, l.node, l.n)
             ELSE l

\* the arguments of a procedure call: expressions until one fails to parse
ParseCallArguments(argType, toks, start, consumed, args) ==
    IF start + consumed < Len(toks)
    THEN LET a == parseExpression(argType, toks, start + consumed)
         IN  IF a.st = "ok"
             THEN parseCallArguments(argType, toks, start, consumed + a.n,
                                     Append(args, a.node))
             ELSE [args |-> args, consumed |-> consumed]
    ELSE [args |-> args, consumed |-> consumed]

ParsePrimaryExpression(toks, start) ==
    IF start >= Len(toks)
    THEN ParserError("Unexpected end of input while parsing primary expression")
    ELSE LET token == toks[start + 1] IN
    IF token.type = "OPERATOR" /\ token.value \in {"-", "+"}
    THEN LET o == parsePrimaryExpression(toks, start + 1)
         IN  IF o.st = "throw" THEN o
             ELSE IF o.st = "null"
             THEN ParserError("Expected expression after " \o token.value \o " operator")
             ELSE IF token.value = "-"
             THEN IF o.node.k = "num"
                  THEN Ok(ENum(-o.node.v), o.n + 1)
                  ELSE Ok(EOp("-", ENum(0), o.node), o.n + 1)
             ELSE Ok(o.node, o.n + 1)
    ELSE CASE token.type = "NUMBER" -> Ok(ENum(ParseFloat(token.value)), 1)
           [] token.type = "STRING" -> Ok(EStr(token.value), 1)
           [] token.type = "VARIABLE" -> Ok(EVar(token.value), 1)
           [] token.type = "OPEN_BRACKET" -> parseList(toks, start)
           [] token.type = "OPEN_PARENTHESIS" ->
                LET x == parseExpression("Number", toks, start + 1)
                    r == IF x.st = "throw" THEN x
                         ELSE IF x.st = "null"
                         THEN ParserError("Failed to parse expression in parentheses")
                         ELSE IF start + x.n + 1 >= Len(toks)
                                 \/ toks[start + x.n + 2].type # "CLOSE_PARENTHESIS"
                         THEN ParserError("Missing closing parenthesis")
                         ELSE Ok(x.node, x.n + 2)
                IN  IF r.st = "throw"
                    THEN ParserError("Error in parenthesized expression: " \o r.msg)
                    ELSE r
           [] token.type = "COMMAND" ->
                LET commandName == ToLower(token.value)
                    c == parseCommand(toks, start)
                    r == IF commandName \notin CommandNames
                         THEN ParserError("Unknown command: " \o commandName)
                         ELSE IF ~CommandSpec(commandName).returns
                         THEN ParserError("Command " \o commandName
                                  \o " cannot be used in an expression as it does not return a value")
                         ELSE IF c.st = "throw" THEN c
                         ELSE IF c.st = "null"
                         THEN ParserError("Failed to parse command " \o commandName
                                          \o " in expression")
                         ELSE Ok(ECmd(c.node), c.n)
                IN  IF r.st = "throw"
                    THEN ParserError("Error parsing command in expression: " \o r.msg)
                    ELSE r
           [] token.type = "PROCEDURE" ->
                LET a == parseCallArguments("Any", toks, start, 1, <<>>)
                IN  Ok(EProc(ToLower(token.value), a.args), a.consumed)
           [] OTHER ->
                ParserError("Unexpected token in expression: " \o token.value
                            \o " (type: " \o token.type \o ")")

ParseBinaryExpression(argType, toks, start, leftValue, leftConsumed) ==
    LET operator == toks[start + leftConsumed + 1].value
        x == parseExpression(argType, toks, start + leftConsumed + 1)
        r == IF x.st = "throw" THEN x
             ELSE IF x.st = "null"
             THEN ParserError("Failed to parse right side of operator " \o operator)
             ELSE IF (Type(leftValue) # "Number" /\ ~IsCommandValue(leftValue))
                     \/ (Type(x.node) # "Number" /\ ~IsCommandValue(x.node))
             THEN ParserError("Operator " \o operator \o " requires number operands, got "
                              \o Type(leftValue) \o " and " \o Type(x.node))
             ELSE Ok(EOp(operator, leftValue, x.node), leftConsumed + 1 + x.n)
    IN  IF r.st = "throw" THEN ParserError("Error in binary expression: " \o r.msg) ELSE r

\* the loop of parseList from token i on, and what follows it
ParseListItems(toks, start, i, items) ==
    IF i < Len(toks) /\ toks[i + 1].type # "CLOSE_BRACKET"
    THEN LET x == parsePrimaryExpression(toks, i)
         IN  IF x.st = "ok" THEN parseListItems(toks, start, i + x.n, Append(items, x.node))
             ELSE IF x.st = "null"
             THEN ParserError("Error in list: Invalid item in list: " \o toks[i + 1].value)
             ELSE ParserError("Error in list: " \o x.msg)
    ELSE IF i >= Len(toks)
    THEN ParserError("Missing closing bracket for list")
    ELSE Ok(EList(items), i - start + 1)

ParseList(toks, start) ==
    IF toks[start + 1].type # "OPEN_BRACKET"
    THEN ParserError("Expected opening bracket for list, got " \o toks[start + 1].value)
    ELSE parseListItems(toks, start, start + 1, <<>>)

\* the loop of parseBlock from token i on, and what follows it
ParseBlockCommands(toks, start, i, cmds) ==
    IF i < Len(toks) /\ toks[i + 1].type # "CLOSE_BRACKET"
    THEN LET c == parseCommand(toks, i)
         IN  IF c.st = "ok" THEN parseBlockCommands(toks, start, i + c.n, Append(cmds, c.node))
             ELSE IF c.st = "null"
             THEN ParserError("Error in block: Invalid command in block: " \o toks[i + 1].value)
             ELSE ParserError("Error in block: " \o c.msg)
    ELSE IF i >= Len(toks)
    THEN ParserError("Missing closing bracket for block")
    ELSE Ok(EBlock(cmds), i - start + 1)

ParseBlock(toks, start) ==
    IF toks[start + 1].type # "OPEN_BRACKET"
    THEN ParserError("Expected opening bracket for block, got " \o toks[start + 1].value)
    ELSE parseBlockCommands(toks, start, start + 1, <<>>)

\* one argument of a command, by the declared type of its slot
ParseArgument(argType, commandName, toks, pos) ==
    IF argType = "Block"
    THEN IF toks[pos + 1].type # "OPEN_BRACKET"
         THEN ParserError("Expected block for " \o commandName \o ", got " \o toks[pos + 1].value)
         ELSE LET b == parseBlock(toks, pos)
              IN  IF b.st = "null"
                  THEN ParserError("Failed to parse block for " \o commandName)
                  ELSE b
    ELSE IF argType = "List"
    THEN IF toks[pos + 1].type = "OPEN_BRACKET"
         THEN LET l == parseList(toks, pos)
              IN  IF l.st = "null"
                  THEN ParserError("Failed to parse list for " \o commandName)
                  ELSE l
         ELSE LET x == parseExpression(argType, toks, pos)
              IN  IF x.st = "null"
                  THEN ParserError("Failed to parse list argument for " \o commandName)
                  ELSE x
    ELSE LET x == parseExpression(argType, toks, pos)
         IN  IF x.st = "null"
             THEN ParserError("Failed to parse argument for " \o commandName)
             ELSE x

\* the loop of parseCommand over commandSpec.argumentTypes from slot k on, and the
\* creation of the command
ParseArguments(commandName, toks, start, k, args, consumed) ==
    LET argumentTypes == CommandSpec(commandName).argumentTypes IN
    IF k > Len(argumentTypes)
    THEN Ok(CreateCommand(commandName, args), consumed)
    ELSE IF start + consumed >= Len(toks)
    THEN ParserError("Not enough arguments for " \o commandName)
    ELSE LET argType == argumentTypes[k]
             a == parseArgument(argType, commandName, toks, start + consumed)
         IN  IF a.st = "throw" THEN a
             ELSE IF argType # "Block" /\ argType # "Any" /\ Type(a.node) # argType
             THEN ParserError("Type mismatch for " \o commandName \o ": expected "
                              \o argType \o ", got " \o Type(a.node))
             ELSE parseArguments(commandName, toks, start, k + 1,
                                 Append(args, a.node), consumed + a.n)

ParseCommand(toks, start) ==
    IF start >= Len(toks) THEN Null
    ELSE LET token == toks[start + 1] IN
    CASE token.type = "COMMAND" ->
            IF ToLower(token.value) \notin CommandNames
            THEN ParserError("Unknown command: " \o ToLower(token.value))
            ELSE parseArguments(ToLower(token.value), toks, start, 1, <<>>, 1)
      [] token.type = "PROCEDURE" -> parseProcedureCall(toks, start)
      [] token.type = "TO" -> parseProcedureDefinition(toks, start)
      [] OTHER -> ParserError("Unexpected token: " \o token.value
                              \o " (type: " \o token.type \o ")")

\* the first position from pos on that holds no VARIABLE token
RECURSIVE ParameterEnd(_, _)
ParameterEnd(toks, pos) ==
    IF pos < Len(toks) /\ toks[pos + 1].type = "VARIABLE"
    THEN ParameterEnd(toks, pos + 1)
    ELSE pos

\* the body loop of parseProcedureDefinition from currentPos on, and what follows it
ParseProcedureBody(toks, start, procedureName, paramNames, currentPos, cmds) ==
    IF currentPos >= Len(toks)
    THEN ParserError("Missing END for procedure " \o procedureName)
    ELSE IF toks[currentPos + 1].type = "END"
    THEN Ok(To(procedureName, paramNames, cmds), currentPos + 1 - start)
    ELSE LET c == parseCommand(toks, currentPos)
         IN  IF c.st = "throw" THEN c
             ELSE IF c.st = "ok"
             THEN parseProcedureBody(toks, start, procedureName, paramNames,
                                     currentPos + c.n, Append(cmds, c.node))
             ELSE parseProcedureBody(toks, start, procedureName, paramNames,
                                     currentPos + 1, cmds)

ParseProcedureDefinition(toks, start) ==
    IF start >= Len(toks) \/ toks[start + 1].type # "TO" THEN Null
    ELSE IF start + 1 >= Len(toks)
    THEN ParserError("Unexpected end of input while parsing procedure definition")
    ELSE LET nameToken == toks[start + 2]
             bodyStart == ParameterEnd(toks, start + 2)
             paramNames == [j \in 1..(bodyStart - (start + 2)) |-> toks[start + 2 + j].value]
         IN  IF nameToken.type \notin {"COMMAND", "PROCEDURE"}
             THEN ParserError("Expected procedure name after TO, got " \o nameToken.value)
             ELSE parseProcedureBody(toks, start, nameToken.value, paramNames,
                                     bodyStart, <<>>)

ParseProcedureCall(toks, start) ==
    IF start >= Len(toks) \/ toks[start + 1].type # "PROCEDURE" THEN Null
    ELSE LET a == parseCallArguments("Number", toks, start, 1, <<>>)
         IN  Ok(Call(toks[start + 1].value, a.args), a.consumed)

CallParser(f, a) ==
    CASE f = "parseExpression" -> ParseExpression(a[1], a[2], a[3])
      [] f = "parsePrimaryExpression" -> ParsePrimaryExpression(a[1], a[2])
      [] f = "parseBinaryExpression" -> ParseBinaryExpression(a[1], a[2], a[3], a[4], a[5])
      [] f = "parseList" -> ParseList(a[1], a[2])
      [] f = "parseListItems" -> ParseListItems(a[1], a[2], a[3], a[4])
      [] f = "parseBlock" -> ParseBlock(a[1], a[2])
      [] f = "parseBlockCommands" -> ParseBlockCommands(a[1], a[2], a[3], a[4])
      [] f = "parseCommand" -> ParseCommand(a[1], a[2])
      [] f = "parseArguments" -> ParseArguments(a[1], a[2], a[3], a[4], a[5], a[6])
      [] f = "parseArgument" -> ParseArgument(a[1], a[2], a[3], a[4])
      [] f = "parseProcedureDefinition" -> ParseProcedureDefinition(a[1], a[2])
      [] f = "parseProcedureBody" -> ParseProcedureBody(a[1], a[2], a[3], a[4], a[5], a[6])
      [] f = "parseProcedureCall" -> ParseProcedureCall(a[1], a[2])
      [] f = "parseCallArguments" -> ParseCallArguments(a[1], a[2], a[3], a[4], a[5])

\* ---- parse(source, tokens): p holds its locals
\* what the body of the try block comes to at token i: a command and the tokens
\* it consumed, nothing (null), or a ParserError thrown
Attempt(toks, i) ==
    LET d == ParseProcedureDefinition(toks, i)
    IN  IF d.st = "null" THEN ParseCommand(toks, i) ELSE d

\* a catch clause that keeps the message and stays at the token
Catch_KeepsToken(p, r) == [p EXCEPT !.errors = Append(@, r.msg)]

\* a catch clause that lets the error go
Catch_Rethrows(p, r) == [p EXCEPT !.escaped = TRUE]

\* a catch clause that gives up the commands parsed so far
Catch_DropsCommands(p, r) ==
    [p EXCEPT !.errors = Append(@, r.msg), !.i = @ + 1, !.commands = <<>>]

\* the catch clause of the loop: keep the message, skip one token
Catch(p, r) == [p EXCEPT !.errors = Append(@, r.msg), !.i = @ + 1]

\* the rest of an iteration of the while loop, r being what the try block came to
AfterAttempt(p, r) ==
    IF r.st = "throw" THEN Catch(p, r)
    ELSE IF r.st = "ok"
    THEN [p EXCEPT !.commands = Append(@, r.node), !.i = @ + r.n]
    ELSE [p EXCEPT !.errors = Append(@, "Unexpected token: " \o p.tokens[p.i + 1].value),
                   !.i = @ + 1]

\* one iteration of the while loop
ParseIteration(p) == AfterAttempt(p, Attempt(p.tokens, p.i))

RECURSIVE ParseLoop(_)
ParseLoop(p) ==
    IF p.i < Len(p.tokens) /\ ~p.escaped THEN ParseLoop(ParseIteration(p)) ELSE p

\* parse as a function of the tokens
Parse(toks) ==
    LET p == ParseLoop([tokens |-> toks, i |-> 0, commands |-> <<>>, errors |-> <<>>,
                        escaped |-> FALSE])
    IN  Program(p.commands, p.errors)

(***************************************************************************)
(* App.tsx                                                                 *)
(***************************************************************************)
Msg(kind, text) == [kind |-> kind, text |-> text]

RECURSIVE Messages(_)
Messages(out) ==
    IF out = <<>> THEN <<>> ELSE <<Msg("output", Head(out))>> \o Messages(Tail(out))

\* new Context(turtleRef.current, ...) and the history of the run
NewRun(program) ==
    [program |-> program, vars |-> EmptyMap, procs |-> EmptyMap, hasOutput |-> FALSE,
     trace |-> <<>>, log |-> <<>>, executed |-> <<>>, status |-> "running", failedAt |-> 0,
     signal |-> "ok", error |-> ""]

\* executeWithDelay whose catch clause goes on to the next command
AfterExecute_GoesOn(s, e, r, index) ==
    IF e.sig = "ok"
    THEN [s EXCEPT !.execTimers = @ \cup {[run |-> r, index |-> index + 1]}]
    ELSE [s EXCEPT !.output = <<Msg("error", e.msg)>>,
                   !.execTimers = @ \cup {[run |-> r, index |-> index + 1]},
                   !.runs[r].status = "failed",
                   !.runs[r].failedAt = index,
                   !.runs[r].signal = e.sig,
                   !.runs[r].error = e.msg]

\* what executeWithDelay does after the try block completed or threw
AfterExecute(s, e, r, index) ==
    IF e.sig = "ok"
    THEN [s EXCEPT !.execTimers = @ \cup {[run |-> r, index |-> index + 1]}]
    ELSE [s EXCEPT !.output = <<Msg("error", e.msg)>>,
                   !.runs[r].status = "failed",
                   !.runs[r].failedAt = index,
                   !.runs[r].signal = e.sig,
                   !.runs[r].error = e.msg]

\* executeWithDelay(program, context, index); index counts from 1 here
ExecuteWithDelay(s, r, index) ==
    LET run == s.runs[r]
    IN  IF index > Len(run.program.commands)
        THEN [s EXCEPT !.output = IF run.hasOutput THEN @
                                  ELSE Append(@, Msg("output", "Program executed successfully.")),
                       !.runs[r].status = "completed"]
        ELSE LET e == execute(run.program.commands[index],
                              [sig |-> "ok", val |-> Undefined, msg |-> "",
                               vars |-> run.vars, procs |-> run.procs,
                               hasOutput |-> run.hasOutput, ops |-> <<>>, out |-> <<>>,
                               trace |-> Append(run.trace, Ev("command", 0, "ok", Num(index))),
                               log |-> run.log,
                               depth |-> 0])
                 s0 == [s EXCEPT !.events =
                                   Append(@, TaskEv("command", Task(0, "", 0, r, index), s))]
                 s1 == turtleCalls(s0, e.ops, r, index)
                 s2 == [s1 EXCEPT !.output = @ \o Messages(e.out),
                                  !.runs[r].vars = e.vars,
                                  !.runs[r].procs = e.procs,
                                  !.runs[r].hasOutput = e.hasOutput,
                                  !.runs[r].trace = e.trace,
                                  !.runs[r].log = e.log,
                                  !.runs[r].executed = Append(@, index)]
             IN  afterExecute(s2, e, r, index)

\* handleExecute when isAnimating: the Run button cancels
HandleExecuteCancel(s) ==
    [cancelAnimation(s) EXCEPT !.isAnimating = FALSE]

\* handleExecute otherwise: clear, parse, and start the chain of executeWithDelay
HandleExecuteRun(s, program) ==
    LET r == Len(s.runs) + 1
        s1 == turtleCall([s EXCEPT !.output = <<>>], [kind |-> "clear", arg |-> 0], r, 0)
    IN  IF Len(program.errors) > 0
        THEN [s1 EXCEPT !.output = <<Msg("error", "Parsing errors")>>]
        ELSE executeWithDelay([s1 EXCEPT !.runs = Append(@, NewRun(program)),
                                         !.isAnimating = TRUE], r, 1)

CallFunction(f, a) ==
    CASE f = "execute" -> Execute(a[1], a[2])
      [] f = "evaluateArgValue" -> EvaluateArgValue(a[1], a[2])
      [] f = "executeAll" -> ExecuteAll(a[1], a[2])
      [] f = "evaluateArgs" -> EvaluateArgs(a[1], a[2], a[3])
      [] f = "repeatLoop" -> RepeatLoop(a[1], a[2], a[3], a[4])
      [] f = "procedureBody" -> ProcedureBody(a[1], a[2], a[3])
      [] f = "procedureBodyInExpression" -> ProcedureBodyInExpression(a[1], a[2], a[3])
      [] f = "procedureCall" -> ProcedureCall(a[1], a[2])
      [] f = "procedureCallInExpression" -> ProcedureCallInExpression(a[1], a[2])
      [] f = "processNextAnimation" -> ProcessNextAnimation(a[1])
      [] f = "runTask" -> RunTask(a[1], a[2])
      [] f = "animateStep" -> AnimateStep(a[1], a[2], a[3], a[4], a[5], a[6])
      [] f = "animate" -> Animate(a[1], a[2])
      [] f = "cancelAnimation" -> CancelAnimation(a[1])
      [] f = "turtleCall" -> TurtleCall(a[1], a[2], a[3], a[4])
      [] f = "turtleCalls" -> TurtleCalls(a[1], a[2], a[3], a[4])
      [] f = "afterExecute" -> AfterExecute(a[1], a[2], a[3], a[4])
      [] f = "executeWithDelay" -> ExecuteWithDelay(a[1], a[2], a[3])
      [] f = "handleExecuteCancel" -> HandleExecuteCancel(a[1])
      [] f = "handleExecuteRun" -> HandleExecuteRun(a[1], a[2])

\* ---- the state as a record, and back
State ==
    [queue |-> animationQueue, inProgress |-> animationInProgress,
     speed |-> animationSpeed, angle |-> angle, position |-> position, frames |-> frames,
     waits |-> waitTimers, isAnimating |-> isAnimating, execTimers |-> execTimers,
     runs |-> runs, output |-> output, nextId |-> nextId, events |-> events,
     active |-> active]

Becomes(s) ==
    /\ animationQueue' = s.queue
    /\ animationInProgress' = s.inProgress
    /\ animationSpeed' = s.speed
    /\ angle' = s.angle
    /\ position' = s.position
    /\ frames' = s.frames
    /\ waitTimers' = s.waits
    /\ isAnimating' = s.isAnimating
    /\ execTimers' = s.execTimers
    /\ runs' = s.runs
    /\ output' = s.output
    /\ nextId' = s.nextId
    /\ events' = s.events
    /\ active' = s.active

\* the speeds the slider is moved to (0..100)
SpeedSet == {1, 100}

\* ---- the programs of the square and of the round trip, from their tokens
\* the text of a number as the user types it
NumberText(n) ==
    CASE n = 0 -> "0"
      [] n = 1 -> "1"
      [] n = 2 -> "2"
      [] n = 3 -> "3"
      [] n = 4 -> "4"
      [] n = 5 -> "5"
      [] n = 6 -> "6"
      [] n = 7 -> "7"
      [] n = 10 -> "10"
      [] n = 45 -> "45"
      [] n = 90 -> "90"

\* the lexer's tokens of a word: command names and procedure names come out in
\* lower case, the name of a variable as it was typed
Number(n) == Tok("NUMBER", NumberText(n))
Command(name) == Tok("COMMAND", name)

\* REPEAT n [ FORWARD d RIGHT 90 ]
SquareTokens(n, d) ==
    <<Command("repeat"), Number(n), Tok("OPEN_BRACKET", "["), Command("forward"), Number(d),
      Command("right"), Number(90), Tok("CLOSE_BRACKET", "]")>>

\* TO SQ :S REPEAT 4 [ FORWARD :S RIGHT 90 ] END SQ d
SqTokens(d) ==
    <<Tok("TO", "TO"), Tok("PROCEDURE", "sq"), Tok("VARIABLE", "S"),
      Command("repeat"), Number(4), Tok("OPEN_BRACKET", "["), Command("forward"),
      Tok("VARIABLE", "S"), Command("right"), Number(90), Tok("CLOSE_BRACKET", "]"),
      Tok("END", "END"), Tok("PROCEDURE", "sq"), Number(d)>>

\* FORWARD d BACK d
RoundTripTokens(d) == <<Command("forward"), Number(d), Command("back"), Number(d)>>

\* REPEAT 2 [ RIGHT 45 FORWARD d BACK d FORWARD 2 ]: round trips from other poses
PosedRoundTripTokens(d) ==
    <<Command("repeat"), Number(2), Tok("OPEN_BRACKET", "["), Command("right"), Number(45)>>
        \o RoundTripTokens(d)
        \o <<Command("forward"), Number(2), Tok("CLOSE_BRACKET", "]")>>

SquareProgram == Parse(SquareTokens(4, Side))
\* WAIT 1 REPEAT 4 [ FORWARD d RIGHT 90 ]: the square after a pause
WaitSquareProgram == Parse(<<Command("wait"), Number(1)>> \o SquareTokens(4, Side))
RoundTripPrograms == {Parse(RoundTripTokens(Side)), Parse(PosedRoundTripTokens(Side))}
GeomPrograms == {SquareProgram, WaitSquareProgram} \cup RoundTripPrograms

\* REPEAT 3 [ RIGHT 90 BACK 1 RIGHT 45 ]
TurnBackTokens ==
    <<Command("repeat"), Number(3), Tok("OPEN_BRACKET", "["), Command("right"), Number(90),
      Command("back"), Number(1), Command("right"), Number(45), Tok("CLOSE_BRACKET", "]")>>

RepeatPrograms == {Parse(SquareTokens(2, 1)), Parse(TurnBackTokens)}

\* ---- the expressions, from their tokens
Operator(o) == Tok("OPERATOR", o)
ComparisonOperators == {"<", ">", "<=", ">=", "==", "!="}

\* a op b
Operation(a, o, b) == <<Number(a), Operator(o), Number(b)>>

\* IFELSE condition [ FORWARD d ] [ BACK d ]
IfElseTokens(condition, d) ==
    <<Command("ifelse")>> \o condition
        \o <<Tok("OPEN_BRACKET", "["), Command("forward"), Number(d), Tok("CLOSE_BRACKET", "]"),
             Tok("OPEN_BRACKET", "["), Command("back"), Number(d), Tok("CLOSE_BRACKET", "]")>>

\* IFELSE a op b [ FORWARD 10 ] [ BACK 10 ] and IFELSE a [ FORWARD 10 ] [ BACK 10 ]
IfElseInputs ==
    {IfElseTokens(Operation(a, o, b), 10) :
        a \in 0..MaxOperand, b \in 0..MaxOperand, o \in ComparisonOperators}
    \cup {IfElseTokens(<<Number(a)>>, 10) : a \in 0..MaxOperand}

\* FORWARD expression
ForwardTokens(expression) == <<Command("forward")>> \o expression

\* ( expression )
Parenthesized(expression) ==
    <<Tok("OPEN_PARENTHESIS", "(")>> \o expression \o <<Tok("CLOSE_PARENTHESIS", ")")>>

\* FORWARD a / b, FORWARD - a / b and FORWARD ( a / b ) / c
DivisionInputs ==
    {ForwardTokens(Operation(a, "/", b)) : a \in 0..MaxOperand, b \in 0..MaxOperand}
    \cup {ForwardTokens(<<Operator("-")>> \o Operation(a, "/", b)) :
             a \in 0..MaxOperand, b \in 0..MaxOperand}
    \cup {ForwardTokens(Parenthesized(Operation(a, "/", b)) \o <<Operator("/"), Number(c)>>) :
             a \in 0..MaxOperand, b \in 0..MaxOperand, c \in 0..MaxOperand}

\* ---- the handlers
\* the user clicks Run while isAnimating (history: events records the cancellation
\* with the run it cancels, the latest)
ClickCancel ==
    /\ clicks < MaxClicks
    /\ isAnimating
    /\ Becomes([handleExecuteCancel(State) EXCEPT
                    !.active = {},
                    !.events = Append(@, TaskEv("cancel", Task(0, "", 0, Len(runs), 0),
                                                State))])
    /\ dropped' = dropped \cup {animationQueue[i].id : i \in 1..Len(animationQueue)}
    /\ clicks' = clicks + 1
    /\ lastOp' = "cancel"
    /\ UNCHANGED <<code, parseVars, restVars>>

\* the user clicks Run while not isAnimating
ClickRun ==
    /\ clicks < MaxClicks
    /\ ~isAnimating
    /\ Becomes(handleExecuteRun(State, code))
    /\ clicks' = clicks + 1
    /\ lastOp' = "run"
    /\ UNCHANGED <<code, dropped, parseVars, restVars>>

\* a setTimeout(() => executeWithDelay(program, context, index + 1)) fires
ExecTimerFires ==
    \E t \in execTimers :
        /\ Becomes(executeWithDelay([State EXCEPT !.execTimers = @ \ {t}], t.run, t.index))
        /\ lastOp' = "command"
        /\ UNCHANGED <<code, dropped, clicks, parseVars, restVars>>

\* a requestAnimationFrame(animateStep) callback fires
FrameFires ==
    \E f \in frames :
        /\ Becomes(animateStep([State EXCEPT !.frames = @ \ {f}],
                               f.task, f.currentStep, f.steps, f.start, f.end))
        /\ lastOp' = "frame"
        /\ UNCHANGED <<code, dropped, clicks, parseVars, restVars>>

\* the setTimeout of a wait task fires
WaitTimerFires ==
    \E t \in waitTimers :
        /\ Becomes(processNextAnimation(Finished([State EXCEPT !.waits = @ \ {t}], t)))
        /\ lastOp' = "wait"
        /\ UNCHANGED <<code, dropped, clicks, parseVars, restVars>>

\* the user moves the speed slider: handleSpeedChange, then the effect that calls
\* turtleRef.current.setAnimationSpeed(speed)
SpeedChange ==
    \E v \in SpeedSet :
        /\ v # animationSpeed
        /\ clicks = 0
        /\ animationSpeed' = v
        /\ lastOp' = "speed"
        /\ UNCHANGED <<animationQueue, animationInProgress, angle, position, frames, waitTimers,
                       code, isAnimating, execTimers, runs, output, nextId, events,
                       active, dropped, clicks, parseVars, restVars>>

\* ---- the programs of the model
AnimPrograms ==
    { Program(<<Forward(ENum(1)), Right(ENum(90))>>, <<>>),
      Program(<<Forward(ENum(1)), Forward(ENum(1))>>, <<>>),
      Program(<<Wait(ENum(1)), Right(ENum(90))>>, <<>>),
      Program(<<Right(ENum(90)), Right(ENum(90))>>, <<>>),
      Program(<<Forward(ENum(1)), ClearScreen, Right(ENum(90))>>, <<>>) }

TurtleInit ==
    /\ animationQueue = <<>>
    /\ animationInProgress = FALSE
    /\ animationSpeed = 50
    /\ angle = -90
    /\ position = Point(0, 0)
    /\ frames = {}
    /\ waitTimers = {}
    /\ isAnimating = FALSE
    /\ execTimers = {}
    /\ runs = <<>>
    /\ output = <<>>
    /\ nextId = 1
    /\ events = <<>>
    /\ active = {}
    /\ dropped = {}
    /\ lastOp = "init"
    /\ clicks = 0

\* no text is being read: the tokens parse is given are there
LexIdle ==
    /\ input = <<>>
    /\ words = <<>>
    /\ lexing = "done"

\* no canvas: penMode, color and backgroundColor hold their first values
FillIdle ==
    /\ raster = <<>>
    /\ penMode = "paint"
    /\ color = "#000000"
    /\ backgroundColor = "#ffffff"
    /\ before = <<>>
    /\ fills = 0

\* turtle.New() and NewTurtle(drawing, width, height)
GoIdle ==
    /\ goAngle = 0
    /\ goHeading = homeHeading

\* no forward task has been called
FwdIdle ==
    /\ fwdDistance = Num(0)
    /\ fwdSteps = Num(0)
    /\ fwdStep = 0
    /\ fwdOffset = Num(0)
    /\ fwdStatus = "idle"

LoopIdle ==
    /\ fillImage = <<>>
    /\ fillStack = <<>>
    /\ fillTarget = NoPixel
    /\ fillWith = Xor
    /\ fillWrites = <<>>
    /\ fillPops = 0
    /\ fillStatus = "idle"

OtherIdle == FwdIdle /\ LoopIdle

RestIdle == LexIdle /\ FillIdle /\ GoIdle /\ OtherIdle

ParseIdle ==
    /\ tokens = <<>>
    /\ pi = 0
    /\ commands = <<>>
    /\ errors = <<>>
    /\ escaped = FALSE
    /\ returned = FALSE
    /\ attempts = <<>>

Init ==
    /\ TurtleInit
    /\ RestIdle
    /\ ParseIdle
    /\ code \in AnimPrograms

Next ==
    \/ ClickRun
    \/ ClickCancel
    \/ ExecTimerFires
    \/ FrameFires
    \/ WaitTimerFires
    \/ SpeedChange

Spec == Init /\ [][Next]_vars

\* procedure bodies and programs that raise signals and errors at several depths
InnerBodies ==
    { <<Right(ENum(1)), Stop, Right(ENum(2))>>,
      <<Right(ENum(1)), Output(ENum(5)), Right(ENum(2))>>,
      <<Repeat(ENum(2), <<Output(ENum(5))>>), Right(ENum(2))>>,
      <<Repeat(ENum(2), <<Right(ENum(1)), Stop>>), Right(ENum(2))>>,
      <<Repeat(ENum(2), <<Bye>>), Right(ENum(2))>>,
      <<Right(EVar("x")), Right(ENum(2))>>,
      <<Forward(EOp("/", ENum(1), ENum(0)))>>,
      <<Forward(ENum(1)), Wait(ENum(1))>> }

OuterBodies ==
    { <<Call("p", <<>>), Right(ENum(3))>>,
      <<Right(EProc("P", <<>>)), Right(ENum(3))>>,
      <<Output(EOp("+", EProc("p", <<>>), ENum(1))), Right(ENum(3))>> }

TopCalls == { Call("q", <<>>), Right(EProc("q", <<>>)) }

EvalPrograms ==
    { Program(<<To("p", <<>>, ib), To("Q", <<>>, ob), top, Right(ENum(4))>>, <<>>) :
        ib \in InnerBodies, ob \in OuterBodies, top \in TopCalls }

InitEval ==
    /\ TurtleInit
    /\ RestIdle
    /\ ParseIdle
    /\ code \in EvalPrograms

\* the evaluator driven by the Run button, over the programs with procedures
SpecEval == InitEval /\ [][Next]_vars

\* programs that call a procedure P as a statement, in expression position and
\* through a procedure Q, with fewer and with more arguments than it has
\* parameters, after the top level has set the variable x
ProcedureBodies ==
    { [params |-> <<>>, body |-> <<Right(ENum(1))>>, last |-> Right(ENum(4))],
      [params |-> <<>>, body |-> <<Count(EStr("ab"))>>, last |-> Right(ENum(4))],
      [params |-> <<>>, body |-> <<Right(ENum(1)), Output(ENum(5))>>,
       last |-> Right(ENum(4))],
      [params |-> <<>>, body |-> <<Forward(ENum(1)), Wait(ENum(1))>>,
       last |-> Right(ENum(4))],
      [params |-> <<>>, body |-> <<To("r", <<>>, <<Right(ENum(1))>>), Call("r", <<>>)>>,
       last |-> Right(EProc("r", <<>>))],
      [params |-> <<"A", "b">>, body |-> <<Right(EVar("a")), Right(EVar("b"))>>,
       last |-> Right(ENum(4))],
      [params |-> <<"A", "b">>, body |-> <<Right(EVar("a"))>>, last |-> Right(ENum(4))],
      [params |-> <<"a">>, body |-> <<Right(EVar("a")), Right(EVar("x"))>>,
       last |-> Right(ENum(4))],
      [params |-> <<"a">>, body |-> <<Make(EStr("y"), ENum(3)), Right(EVar("y")),
                                      Make(EStr("a"), ENum(9)), Right(EVar("a"))>>,
       last |-> Right(EVar("x"))] }

ProcedureCalls ==
    { Call("p", <<>>),
      Call("p", <<ENum(1)>>),
      Call("p", <<EVar("X"), ENum(2), ENum(3)>>),
      Call("q", <<ENum(7)>>),
      Right(EProc("p", <<ENum(1), ENum(2)>>)) }

\* MAKE "x 5, TO P, TO Q where the call is of Q, the call, and a last command where
\* it looks at what the call left behind
ProcPrograms ==
    { Program(<<Make(EStr("x"), ENum(5)), To("p", b.params, b.body)>>
                  \o (IF c.name = "q"
                      THEN <<To("q", <<"x">>, <<Call("p", <<EVar("x")>>), Right(EVar("x"))>>)>>
                      ELSE <<>>)
                  \o <<c>>
                  \o (IF b.last = Right(ENum(4)) THEN <<>> ELSE <<b.last>>), <<>>) :
        b \in ProcedureBodies, c \in ProcedureCalls }

InitProc ==
    /\ TurtleInit
    /\ RestIdle
    /\ ParseIdle
    /\ code \in ProcPrograms \cup RepeatPrograms

\* the evaluator driven by the Run button, over the programs that call P and the
\* programs that repeat a block
SpecProc == InitProc /\ [][Next]_vars

InitGeom ==
    /\ TurtleInit
    /\ RestIdle
    /\ ParseIdle
    /\ code \in GeomPrograms

\* the square and the round trip, parsed from their tokens and run by the Run button
SpecGeom == InitGeom /\ [][Next]_vars

\* RIGHT 90 REPEAT 1 [ FORWARD d HOME ]: HOME called while a motion is in flight
HomeTokens(d) ==
    <<Command("right"), Number(90), Command("repeat"), Number(1), Tok("OPEN_BRACKET", "["),
      Command("forward"), Number(d), Command("home"), Tok("CLOSE_BRACKET", "]")>>

\* WAIT 1 HOME: HOME called on an idle turtle
WaitHomeTokens == <<Command("wait"), Number(1), Command("home")>>

HomePrograms == {Parse(HomeTokens(Side)), Parse(WaitHomeTokens)}

InitHome ==
    /\ TurtleInit
    /\ RestIdle
    /\ ParseIdle
    /\ code \in HomePrograms

\* programs with HOME, parsed from their tokens and run by the Run button
SpecHome == InitHome /\ [][Next]_vars

\* SETHEADING h for headings inside and outside a full turn (-90 is written 0 - 90),
\* and SETHEADING after a motion and after a pause
Headings == {ENum(0), ENum(90), ENum(360), ENum(450), EOp("-", ENum(0), ENum(90))}
HeadingPrograms ==
    {Program(<<SetHeading(h)>>, <<>>) : h \in Headings}
        \cup {Program(<<Forward(ENum(1)), SetHeading(ENum(450))>>, <<>>),
              Program(<<Wait(ENum(1)), SetHeading(ENum(90))>>, <<>>)}

InitHeading ==
    /\ TurtleInit
    /\ RestIdle
    /\ ParseIdle
    /\ code \in HeadingPrograms

SpecHeading == InitHeading /\ [][Next]_vars

\* HIDETURTLE and SHOWTURTLE one after the other, in both orders, on an idle turtle
\* (each its own top-level command) and behind a motion or a pause
VisiblePrograms ==
    { Program(<<HideTurtle, ShowTurtle>>, <<>>),
      Program(<<Repeat(ENum(1), <<Forward(ENum(1)), HideTurtle, ShowTurtle>>)>>, <<>>),
      Program(<<Repeat(ENum(1), <<HideTurtle, Forward(ENum(1)), ShowTurtle, HideTurtle>>)>>,
              <<>>),
      Program(<<Wait(ENum(1)), ShowTurtle, HideTurtle>>, <<>>) }

InitVisible ==
    /\ TurtleInit
    /\ RestIdle
    /\ ParseIdle
    /\ code \in VisiblePrograms

SpecVisible == InitVisible /\ [][Next]_vars

\* programs by the way they end: MAKE "x 1 asks nothing of the turtle, FORWARD 1
\* CLEARSCREEN ends with the clear task, the others with a motion or a turn
EndPrograms ==
    { Program(<<Make(EStr("x"), ENum(1))>>, <<>>),
      Program(<<Forward(ENum(1)), ClearScreen>>, <<>>),
      Program(<<Forward(ENum(1))>>, <<>>),
      Program(<<Wait(ENum(1)), Right(ENum(90))>>, <<>>) }

InitEnd ==
    /\ TurtleInit
    /\ RestIdle
    /\ ParseIdle
    /\ code \in EndPrograms

SpecEnd == InitEnd /\ [][Next]_vars

\* ---- the parser on its own: parse, one iteration of its loop at a time
ParseState ==
    [tokens |-> tokens, i |-> pi, commands |-> commands, errors |-> errors,
     escaped |-> escaped]

ParseStep ==
    /\ lexing = "done"
    /\ ~returned /\ ~escaped
    /\ pi < Len(tokens)
    /\ LET r == Attempt(tokens, pi)
           p == AfterAttempt(ParseState, r)
       IN  /\ pi' = p.i
           /\ commands' = p.commands
           /\ errors' = p.errors
           /\ escaped' = p.escaped
           /\ attempts' = Append(attempts, [pos |-> pi, st |-> r.st, msg |-> r.msg,
                                            before |-> commands])
    /\ lastOp' = "parse"
    /\ UNCHANGED <<animationQueue, animationInProgress, animationSpeed, angle, position,
                   frames, waitTimers, code, isAnimating, execTimers, runs, output, nextId,
                   events, active, dropped, clicks, tokens, returned, restVars>>

\* the loop is over: new Program(commands, source), program.errors, return
ParseReturn ==
    /\ lexing = "done"
    /\ ~returned /\ ~escaped
    /\ pi >= Len(tokens)
    /\ code' = Program(commands, errors)
    /\ returned' = TRUE
    /\ lastOp' = "return"
    /\ UNCHANGED <<animationQueue, animationInProgress, animationSpeed, angle, position,
                   frames, waitTimers, isAnimating, execTimers, runs, output, nextId,
                   events, active, dropped, clicks, tokens, pi, commands, errors,
                   escaped, attempts, restVars>>

\* the tokens of the model.  A STRING or a VARIABLE token is a primary expression
\* as a NUMBER token is (a list is the value that is no Number here), and is left
\* out to keep the sequences few; the parentheses come in with ParenInputs.
Alphabet ==
    { Tok("COMMAND", "forward"), Tok("COMMAND", "home"), Tok("COMMAND", "repeat"),
      Tok("COMMAND", "random"), Tok("PROCEDURE", "sq"), Tok("NUMBER", "1"),
      Tok("OPERATOR", "+"), Tok("OPEN_BRACKET", "["), Tok("CLOSE_BRACKET", "]"),
      Tok("TO", "TO"), Tok("END", "END") }

\* FORWARD with an argument in parentheses: closed, left open, empty, and closed twice
ParenInputs ==
    { <<Command("forward"), Tok("OPEN_PARENTHESIS", "("), Number(1),
        Tok("CLOSE_PARENTHESIS", ")")>>,
      <<Command("forward"), Tok("OPEN_PARENTHESIS", "("), Number(1)>>,
      <<Command("forward"), Tok("OPEN_PARENTHESIS", "("), Tok("CLOSE_PARENTHESIS", ")")>>,
      <<Command("forward"), Tok("OPEN_PARENTHESIS", "("), Number(1), Tok("OPERATOR", "+"),
        Number(1), Tok("CLOSE_PARENTHESIS", ")"), Tok("CLOSE_PARENTHESIS", ")"),
        Command("home")>> }

TokenSequences == UNION {[1..n -> Alphabet] : n \in 0..MaxTokens}

\* the square by a procedure and by a REPEAT, with sides of 1 to Side
SquareInputs == {SqTokens(d) : d \in 1..Side} \cup {SquareTokens(4, d) : d \in 1..Side}

\* FORWARD a op1 b op2 c
ChainInputs ==
    {ForwardTokens(Operation(a, o1, b) \o <<Operator(o2), Number(c)>>) :
        a \in 0..MaxOperand, b \in 0..MaxOperand, c \in 0..MaxOperand,
        o1 \in Operators, o2 \in Operators}

\* the inputs of parse that are written out
WrittenInputs ==
    SquareInputs \cup ParenInputs \cup IfElseInputs \cup DivisionInputs \cup ChainInputs

InitParse ==
    /\ TurtleInit
    /\ RestIdle
    /\ tokens \in TokenSequences \cup WrittenInputs
    /\ pi = 0
    /\ commands = <<>>
    /\ errors = <<>>
    /\ escaped = FALSE
    /\ returned = FALSE
    /\ attempts = <<>>
    /\ code = Program(<<>>, <<>>)

NextParse ==
    \/ ParseStep
    \/ ParseReturn

SpecParse == InitParse /\ [][NextParse]_vars

\* ---- the lexer and then the parser, as handleExecute calls them (App.tsx 59-61)
\* tokenize starts: the words of the text
LexSplit ==
    /\ lexing = "new"
    /\ words' = Words(input)
    /\ lexing' = "words"
    /\ UNCHANGED <<turtleVars, parseVars, input, fillVars, goVars, otherVars>>

\* one iteration of the loop of tokenize
LexWord ==
    /\ lexing = "words"
    /\ words # <<>>
    /\ tokens' = Append(tokens, TokenOf(Head(words)))
    /\ words' = Tail(words)
    /\ UNCHANGED <<turtleVars, pi, commands, errors, escaped, returned, attempts, input,
                   lexing, fillVars, goVars, otherVars>>

\* tokenize returns; getTokens() is what parse is given
LexReturn ==
    /\ lexing = "words"
    /\ words = <<>>
    /\ lexing' = "done"
    /\ UNCHANGED <<turtleVars, parseVars, input, words, fillVars, goVars, otherVars>>

\* statements, and comments up to the end of a line
Statements ==
    { <<"f", "d", " ", "1">>,
      <<"R", "T", " ", "9", "0">>,
      <<"r", "p", " ", "2", "[", "f", "d", " ", "1", "+", "1", "]">> }
Comments ==
    { <<";", " ", "g", "o">>,
      <<";", "f", "d", " ", "2">>,
      <<" ", ";">> }

\* two lines, each a statement or nothing, then a comment or nothing
Line(statement, comment) == statement \o comment
LexInputs ==
    { Line(s1, c1) \o <<"\n">> \o Line(s2, c2) :
        s1 \in Statements \cup {<<>>}, c1 \in Comments \cup {<<>>},
        s2 \in Statements \cup {<<>>}, c2 \in Comments \cup {<<>>} }

InitLex ==
    /\ TurtleInit
    /\ ParseIdle
    /\ code = Program(<<>>, <<>>)
    /\ FillIdle
    /\ GoIdle
    /\ OtherIdle
    /\ input \in {Trim(t) : t \in LexInputs}
    /\ words = <<>>
    /\ lexing = "new"

NextLex ==
    \/ LexSplit
    \/ LexWord
    \/ LexReturn
    \/ ParseStep
    \/ ParseReturn

SpecLex == InitLex /\ [][NextLex]_vars

\* ---- the flood fill on its own: a canvas with lines on it, the turtle anywhere on
\* it or one pixel off its right or bottom edge, and FILL run again and again
Rasters == [1..(CanvasWidth * CanvasHeight) -> {Transparent, Rgba("#000000")}]
\* the positions whose pixel is on the canvas or one pixel past its right or
\* bottom edge
TurtlePositions ==
    {Point(x - (CanvasWidth + 1) \div 2, y - (CanvasHeight + 1) \div 2) :
        x \in 0..CanvasWidth, y \in 0..CanvasHeight}

\* the task of fill runs: the turtle is idle, so animate calls it at once, and
\* processNextAnimation finds the queue empty
FillTask ==
    /\ fills < MaxFills
    /\ raster' = Fill(raster, position, penMode, color, backgroundColor)
    /\ before' = raster
    /\ fills' = fills + 1
    /\ UNCHANGED <<turtleVars, parseVars, lexVars, penMode, color, backgroundColor, goVars, otherVars>>

InitFill ==
    /\ animationQueue = <<>>
    /\ animationInProgress = FALSE
    /\ animationSpeed = 50
    /\ angle = -90
    /\ position \in TurtlePositions
    /\ frames = {}
    /\ waitTimers = {}
    /\ isAnimating = FALSE
    /\ execTimers = {}
    /\ runs = <<>>
    /\ output = <<>>
    /\ nextId = 1
    /\ events = <<>>
    /\ active = {}
    /\ dropped = {}
    /\ lastOp = "init"
    /\ clicks = 0
    /\ ParseIdle
    /\ LexIdle
    /\ GoIdle
    /\ OtherIdle
    /\ code = Program(<<>>, <<>>)
    /\ raster \in Rasters
    /\ penMode \in {"paint", "erase", "reverse"}
    /\ color \in {"#000000", "#ff0000"}
    /\ backgroundColor = "#ffffff"
    /\ before = raster
    /\ fills = 0

NextFill == FillTask

SpecFill == InitFill /\ [][NextFill]_vars

\* ---- one fill task, an iteration of its loop at a time: a canvas with at most
\* two pixels of a line on it
LoopRasters == {r \in Rasters : Cardinality({k \in DOMAIN r : r[k] # Transparent}) <= 2}

\* the task of fill as far as its loop: the data is read, the target and the fill
\* colour are found, and the task returns early or the seed is put on the stack
FillStarts ==
    /\ fillStatus = "idle"
    /\ LET seed == Pixel(position)
           fillColor == FillColor(penMode, color, backgroundColor)
           target == PixelAt(raster, seed.y * CanvasWidth + seed.x)
       IN  /\ fillImage' = raster
           /\ fillTarget' = target
           /\ fillWith' = fillColor
           /\ fillWrites' = [k \in DOMAIN raster |-> 0]
           /\ fillPops' = 0
           /\ IF fillColor # Xor /\ target = fillColor
              THEN fillStack' = <<>> /\ fillStatus' = "done"
              ELSE fillStack' = <<seed>> /\ fillStatus' = "loop"
    /\ before' = raster
    /\ fills' = fills + 1
    /\ UNCHANGED <<turtleVars, parseVars, lexVars, raster, penMode, color, backgroundColor,
                   goVars, fwdVars>>

\* one iteration of while (stack.length > 0)
FillIteration ==
    /\ fillStatus = "loop"
    /\ fillStack # <<>>
    /\ LET cur == fillStack[Len(fillStack)]
           rest == SubSeq(fillStack, 1, Len(fillStack) - 1)
           pixelIndex == cur.y * CanvasWidth + cur.x
       IN  IF cur.x < 0 \/ cur.x >= CanvasWidth \/ cur.y < 0 \/ cur.y >= CanvasHeight
           THEN fillStack' = rest /\ UNCHANGED <<fillImage, fillWrites>>
           ELSE IF ~MatchesTarget(fillImage, pixelIndex, fillTarget)
           THEN fillStack' = rest /\ UNCHANGED <<fillImage, fillWrites>>
           ELSE /\ fillImage' = [fillImage EXCEPT ![pixelIndex + 1] = SetFillColor(@, fillWith)]
                /\ fillWrites' = [fillWrites EXCEPT ![pixelIndex + 1] = @ + 1]
                /\ fillStack' = rest \o Neighbours(cur)
    /\ fillPops' = fillPops + 1
    /\ UNCHANGED <<turtleVars, parseVars, lexVars, fillVars, goVars, fwdVars, fillTarget,
                   fillWith, fillStatus>>

\* the loop is over: ctx.putImageData(imageData, 0, 0)
FillPuts ==
    /\ fillStatus = "loop"
    /\ fillStack = <<>>
    /\ raster' = fillImage
    /\ fillStatus' = "done"
    /\ UNCHANGED <<turtleVars, parseVars, lexVars, penMode, color, backgroundColor, before,
                   fills, goVars, fwdVars, fillImage, fillStack, fillTarget, fillWith,
                   fillWrites, fillPops>>

InitFillLoop ==
    /\ animationQueue = <<>>
    /\ animationInProgress = FALSE
    /\ animationSpeed = 50
    /\ angle = -90
    /\ position \in TurtlePositions
    /\ frames = {}
    /\ waitTimers = {}
    /\ isAnimating = FALSE
    /\ execTimers = {}
    /\ runs = <<>>
    /\ output = <<>>
    /\ nextId = 1
    /\ events = <<>>
    /\ active = {}
    /\ dropped = {}
    /\ lastOp = "init"
    /\ clicks = 0
    /\ ParseIdle
    /\ LexIdle
    /\ GoIdle
    /\ OtherIdle
    /\ code = Program(<<>>, <<>>)
    /\ raster \in LoopRasters
    /\ penMode \in {"paint", "erase", "reverse"}
    /\ color \in {"#000000", "#ff0000"}
    /\ backgroundColor = "#ffffff"
    /\ before = raster
    /\ fills = 0

NextFillLoop == FillStarts \/ FillIteration \/ FillPuts

SpecFillLoop == InitFillLoop /\ [][NextFillLoop]_vars

\* ---- motions on their own: the slider anywhere from 0 to 100, and forward and
\* home called with the turtle idle or moving
Speeds == {0, 1, 2, 100}
Distances == {3, 7, 12}

\* setAnimationSpeed(speed)
SetAnimationSpeed ==
    \E v \in Speeds :
        /\ v # animationSpeed
        /\ animationSpeed' = v
        /\ lastOp' = "speed"
        /\ UNCHANGED <<animationQueue, animationInProgress, angle, position, frames, waitTimers,
                       code, isAnimating, execTimers, runs, output, nextId, events,
                       active, dropped, clicks, parseVars, restVars>>

\* turtle.forward(distance)
MoveForward ==
    \E d \in Distances :
        /\ nextId <= MaxTasks
        /\ Becomes(turtleCall(State, [kind |-> "forward", arg |-> d], 0, 0))
        /\ lastOp' = "forward"
        /\ UNCHANGED <<code, dropped, clicks, parseVars, restVars>>

\* turtle.home()
MoveHome ==
    /\ nextId <= MaxTasks
    /\ Becomes(turtleCall(State, [kind |-> "home", arg |-> 0], 0, 0))
    /\ lastOp' = "home"
    /\ UNCHANGED <<code, dropped, clicks, parseVars, restVars>>

InitSteps ==
    /\ TurtleInit
    /\ RestIdle
    /\ ParseIdle
    /\ code = Program(<<>>, <<>>)

NextSteps ==
    \/ SetAnimationSpeed
    \/ MoveForward
    \/ MoveHome
    \/ FrameFires

SpecSteps == InitSteps /\ [][NextSteps]_vars

\* ---- one forward task on its own, with distances that need not be whole, never
\* cancelled: the turtle is idle when forward is called, so animate calls the task at
\* once
ForwardDistances ==
    {Quotient(n, 2) : n \in {-15, -11, -10, -6, 1, 5, 6, 10, 11, 12, 15, 20}}

\* animateStep of forward with currentStep = k
ForwardAnimateStep(distance, steps, k) ==
    IF ~NumLess(Num(k), steps)
    THEN /\ fwdStatus' = "done"
         /\ fwdStep' = k
         /\ UNCHANGED fwdOffset
    ELSE /\ fwdStatus' = "moving"
         /\ fwdStep' = k + 1
         /\ fwdOffset' = Progressed(distance, k + 1, steps)

\* turtle.forward(distance): animateForward computes steps and calls animateStep
ForwardCalled ==
    \E d \in ForwardDistances :
        /\ fwdStatus = "idle"
        /\ fwdDistance' = d
        /\ fwdSteps' = NumberSteps(d, animationSpeed)
        /\ ForwardAnimateStep(d, NumberSteps(d, animationSpeed), 0)
        /\ UNCHANGED <<turtleVars, parseVars, lexVars, fillVars, goVars, loopVars>>

\* the requestAnimationFrame callback of forward's animateStep fires
ForwardFrameFires ==
    /\ fwdStatus = "moving"
    /\ ForwardAnimateStep(fwdDistance, fwdSteps, fwdStep)
    /\ UNCHANGED <<turtleVars, parseVars, lexVars, fillVars, goVars, fwdDistance, fwdSteps,
                   loopVars>>

InitMotion ==
    /\ TurtleInit
    /\ RestIdle
    /\ ParseIdle
    /\ code = Program(<<>>, <<>>)

NextMotion ==
    \/ SetAnimationSpeed
    \/ ForwardCalled
    \/ ForwardFrameFires

SpecMotion == InitMotion /\ [][NextMotion]_vars

\* ---- the Go turtles on their own: Left and Right called in any order with
\* angles below and above a full turn
GoAngles == {45, 90, 450, 540}

GoLeft ==
    /\ \E a \in GoAngles : goAngle' = TurtleLeft(goAngle, a)
    /\ UNCHANGED <<turtleVars, parseVars, lexVars, fillVars, goHeading, otherVars>>

GoRight ==
    /\ \E a \in GoAngles : goAngle' = TurtleRight(goAngle, a)
    /\ UNCHANGED <<turtleVars, parseVars, lexVars, fillVars, goHeading, otherVars>>

GoCanvasLeft ==
    /\ \E a \in GoAngles : goHeading' = CanvasLeft(goHeading, a)
    /\ UNCHANGED <<turtleVars, parseVars, lexVars, fillVars, goAngle, otherVars>>

GoCanvasRight ==
    /\ \E a \in GoAngles : goHeading' = CanvasRight(goHeading, a)
    /\ UNCHANGED <<turtleVars, parseVars, lexVars, fillVars, goAngle, otherVars>>

InitGo ==
    /\ TurtleInit
    /\ ParseIdle
    /\ RestIdle
    /\ code = Program(<<>>, <<>>)

NextGo ==
    \/ GoLeft
    \/ GoRight
    \/ GoCanvasLeft
    \/ GoCanvasRight

SpecGo == InitGo /\ [][NextGo]_vars

(***************************************************************************)
(* Claims                                                                  *)
(***************************************************************************)
HasEvent(ev, id) == \E i \in 1..Len(events) : events[i].ev = ev /\ events[i].id = id
EventAt(ev, id) == CHOOSE i \in 1..Len(events) : events[i].ev = ev /\ events[i].id = id
TaskIds == 1..(nextId - 1)

\* C1: tasks run in the order of their submission (task ids count submissions):
\* of two tasks that both ran to completion, the one submitted first finished
\* before the other started.
C1_SubmissionOrder ==
    \A a, b \in TaskIds :
        (a < b /\ HasEvent("finish", a) /\ HasEvent("start", b)
               /\ HasEvent("finish", b))
        => EventAt("finish", a) < EventAt("start", b)

C3_NextCommandAfterDrain ==
    \A j \in 1..Len(events) :
        events[j].ev = "command" =>
            \A i \in 1..(j - 1) :
                (events[i].ev = "submit" /\ events[i].run = events[j].run
                 /\ events[i].cmd + 1 = events[j].cmd /\ events[i].cmd >= 1)
                => \E f \in (i + 1)..(j - 1) :
                       events[f].ev = "finish" /\ events[f].id = events[i].id

\* C4: right after cancelAnimation the queue is empty and animationInProgress is
\* false, and no task that was pending at a cancellation is ever started.
C4_CancelDropsPending ==
    /\ lastOp = "cancel" => (animationQueue = <<>> /\ ~animationInProgress)
    /\ \A id \in dropped : ~HasEvent("start", id)

\* tasks were pending at a cancellation, and a task submitted later has run
C4_Witness ==
    /\ dropped # {}
    /\ \E id \in TaskIds : (\A d \in dropped : id > d) /\ HasEvent("finish", id)

IsPrefix(a, b) == Len(a) <= Len(b) /\ SubSeq(b, 1, Len(a)) = a
IsSuffix(a, b) == Len(a) <= Len(b) /\ SubSeq(b, Len(b) - Len(a) + 1, Len(b)) = a

\* the iterations of the loop that parsed no command, and the message of each
Failed(a) == a.st # "ok"
FailureMessage(a) ==
    IF a.st = "throw" THEN a.msg ELSE "Unexpected token: " \o tokens[a.pos + 1].value
FailureMessages ==
    LET f == SelectSeq(attempts, Failed)
    IN  [j \in 1..Len(f) |-> FailureMessage(f[j])]

\* C5: for every token sequence parse returns a Program and no exception leaves
\* it: the loop never runs past the tokens nor more often than there are tokens,
\* and the Program it returns holds the commands parsed and, in order, the message
\* of every iteration that failed.
C5_ParseNeverThrows ==
    /\ ~escaped
    /\ pi <= Len(tokens)
    /\ Len(attempts) <= Len(tokens)
    /\ returned => /\ code.commands = commands
                   /\ code.errors = FailureMessages

C5_Witness ==
    /\ returned
    /\ Len(code.errors) >= 2
    /\ Len(code.commands) >= 1
    /\ \E j \in 1..Len(attempts) : attempts[j].st = "throw" /\ attempts[j].pos > 0

\* a token that can only begin a statement: TO, or a command that returns no value
StartsStatement(t) ==
    \/ t.type = "TO"
    \/ t.type = "COMMAND" /\ t.value \in CommandNames /\ ~CommandSpec(t.value).returns

\* the tokens from position q (0-based) to the end
TokensFrom(q) == SubSeq(tokens, q + 1, Len(tokens))

RunIds == 1..Len(runs)
NoTimerOf(r) == \A t \in execTimers : t.run # r

\* C7: when a top-level command raises an evaluation error, the error message
\* replaces the output and the run executes no later top-level command.
C7_StopsAtEvalError ==
    /\ [](\A r \in RunIds :
            (runs[r].status = "failed" /\ runs[r].signal = "error")
            => /\ runs[r].executed = [i \in 1..runs[r].failedAt |-> i]
               /\ NoTimerOf(r))
    /\ [][\A r \in 1..Len(runs') :
            (/\ runs'[r].status = "failed"
             /\ runs'[r].signal = "error"
             /\ (r > Len(runs) \/ runs[r].status # "failed"))
            => output' = <<Msg("error", runs'[r].error)>>]_vars

\* a run failed with an evaluation error before its last command
C7_Witness ==
    \E r \in RunIds :
        /\ runs[r].status = "failed"
        /\ runs[r].signal = "error"
        /\ runs[r].failedAt < Len(runs[r].program.commands)
        /\ output = <<Msg("error", runs[r].error)>>

\* C8: a Stop or Output signal raised in a procedure body never leaves the
\* innermost procedure call around it: no call ends by passing one on.
C8_SignalsConsumed ==
    \A r \in RunIds : \A i \in 1..Len(runs[r].trace) :
        runs[r].trace[i].ev = "result" => runs[r].trace[i].sig \notin {"stop", "output"}

\* C9: an Output(value) raised in a procedure body is followed at once by the end
\* of the innermost call, whose result is value.
C9_OutputIsResult ==
    \A r \in RunIds : \A i \in 1..Len(runs[r].trace) :
        LET t == runs[r].trace
        IN  (t[i].ev = "raise" /\ t[i].sig = "output" /\ t[i].d >= 1)
            => /\ i < Len(t)
               /\ t[i + 1] = Ev("result", t[i].d, "ok", t[i].val)

\* an Output was raised inside a nested block of a procedure called in expression
\* position, and one in a procedure called as a statement
C9_Witness ==
    \E r \in RunIds :
        LET t == runs[r].trace
        IN  \E i, j \in 1..Len(t) :
              /\ t[i].ev = "raise" /\ t[i].sig = "output" /\ t[i].d = 2
              /\ t[j].ev = "raise" /\ t[j].sig = "output" /\ t[j].d = 1
              /\ runs[r].status = "completed"

\* C10: after a Bye is raised nothing more of the program is executed: every call
\* around it ends by passing the signal on, and no top-level command follows.
C10_ByeEndsProgram ==
    \A r \in RunIds : \A i \in 1..Len(runs[r].trace) :
        LET t == runs[r].trace
        IN  (t[i].ev = "raise" /\ t[i].sig = "bye")
            => /\ \A j \in (i + 1)..Len(t) : t[j].ev = "result" /\ t[j].sig = "bye"
               /\ NoTimerOf(r)
               /\ runs[r].status = "failed"

\* a Bye was raised two calls deep, inside a REPEAT block, with commands left
C10_Witness ==
    \E r \in RunIds :
        LET t == runs[r].trace
        IN  /\ \E i \in 1..Len(t) : t[i].ev = "raise" /\ t[i].sig = "bye" /\ t[i].d = 2
            /\ runs[r].failedAt < Len(runs[r].program.commands)

\* ---- procedure calls in a run's history
\* the index of the "result" event that ends the call entered at event i of t
ResultOf(t, i) ==
    CHOOSE j \in (i + 1)..Len(t) :
        /\ t[j].ev = "result" /\ t[j].d = t[i].d
        /\ \A k \in (i + 1)..(j - 1) : ~(t[k].ev = "result" /\ t[k].d = t[i].d)

\* event v is the call at depth d failing for want of an Output
IsNoOutput(v, d) ==
    v.ev = "raise" /\ v.sig = "error" /\ v.d = d /\ v.val = Str("does not output a value")

\* C11: a call in expression position in whose body no Output is raised, and whose
\* commands raise nothing else either, fails with "does not output a value".
C11_NoOutputFails ==
    \A r \in RunIds : \A i \in 1..Len(runs[r].trace) :
        LET t == runs[r].trace
            j == ResultOf(t, i)
        IN  (/\ t[i].ev = "callInExpression"
             /\ \A k \in (i + 1)..(j - 1) : t[k].ev = "raise" => IsNoOutput(t[k], t[i].d))
            => /\ t[j].sig = "error"
               /\ IsNoOutput(t[j - 1], t[i].d)

\* C12: a call that is a statement never fails for want of an Output, and when
\* the commands of its body raise nothing it ends without an error, with or
\* without a value.
C12_StatementNeedsNoOutput ==
    \A r \in RunIds : \A i \in 1..Len(runs[r].trace) :
        LET t == runs[r].trace
            j == ResultOf(t, i)
        IN  t[i].ev = "call"
            => /\ \A k \in (i + 1)..(j - 1) : ~IsNoOutput(t[k], t[i].d)
               /\ (\A k \in (i + 1)..(j - 1) : t[k].ev # "raise") => t[j].sig = "ok"

\* a statement call whose body ran a command, raised nothing and produced no value
C12_Witness ==
    \E r \in RunIds : \E i \in 1..Len(runs[r].trace) :
        LET t == runs[r].trace
            j == ResultOf(t, i)
        IN  /\ t[i].ev = "call"
            /\ j > i + 1
            /\ \A k \in (i + 1)..(j - 1) : t[k].ev = "exec"
            /\ t[j] = Ev("result", t[i].d, "ok", Undefined)
            /\ runs[r].status = "completed"

\* ---- names in a run's log
\* the entry of the call that the entry j of a procedure Context belongs to
EnclosingCall(l, j) ==
    CHOOSE i \in 1..(j - 1) :
        /\ l[i].op = "call" /\ l[i].d = l[j].d
        /\ \A k \in (i + 1)..(j - 1) : ~(l[k].op \in {"call", "return"} /\ l[k].d = l[j].d)

\* the MAKEs of the name of entry j in its call so far
MakesBefore(l, i, j) ==
    {m \in (i + 1)..(j - 1) : l[m].op = "make" /\ l[m].d = l[j].d /\ l[m].name = l[j].name}

LowerNames(params) == {ToLower(params[k]) : k \in 1..Len(params)}

\* C13: a variable looked up inside a procedure call is found only when it is a
\* formal parameter of that call or was set by a MAKE during that call, and a
\* variable set during the call has the value of the last such MAKE; a variable
\* of the caller alone is not found.
C13_LocalScope ==
    \A r \in RunIds : \A j \in 1..Len(runs[r].log) :
        LET l == runs[r].log
            i == EnclosingCall(l, j)
            makes == MakesBefore(l, i, j)
        IN  (l[j].op = "lookup" /\ l[j].d >= 1)
            => /\ l[j].found => (l[j].name \in LowerNames(l[i].params) \/ makes # {})
               /\ makes # {} => (l[j].found /\ l[j].val = l[CHOOSE m \in makes :
                                                              \A m2 \in makes : m2 <= m].val)

\* inside a call a parameter was looked up and found, and then a variable that
\* the top level had set was looked up and not found
C13_Witness ==
    \E r \in RunIds : \E j, j2 \in 1..Len(runs[r].log) :
        LET l == runs[r].log
        IN  /\ l[j].op = "lookup" /\ l[j].d >= 1 /\ ~l[j].found
            /\ \E m \in 1..(j - 1) : l[m].op = "make" /\ l[m].d = 0 /\ l[m].name = l[j].name
            /\ j2 < j /\ l[j2].op = "lookup" /\ l[j2].d = l[j].d /\ l[j2].found
            /\ EnclosingCall(l, j2) = EnclosingCall(l, j)

\* C14: a procedure defined anywhere in a run, inside a procedure call included,
\* is found by every later call of its name in that run.
C14_ProceduresShared ==
    \A r \in RunIds : \A i, j \in 1..Len(runs[r].log) :
        LET l == runs[r].log
        IN  (i < j /\ l[i].op = "define" /\ l[j].op = "getProcedure" /\ l[j].name = l[i].name)
            => l[j].found

\* the arguments of the call at entry i were evaluated in the caller's Context:
\* the variables looked up right before the call was entered were looked up there
ArgumentsInCaller(l, i) ==
    \A j \in 1..(i - 1) :
        (\A k \in j..(i - 1) : l[k].op = "lookup") => l[j].d = l[i].d - 1

\* C15: inside a call, parameter number k, as long as no MAKE has set it, is found
\* exactly when the call has a k-th argument, and its value is that argument; the
\* arguments beyond the parameters bind nothing, and the arguments were evaluated
\* in the caller's Context.
C15_PositionalBinding ==
    \A r \in RunIds : \A j \in 1..Len(runs[r].log) :
        LET l == runs[r].log
            i == EnclosingCall(l, j)
        IN  /\ l[j].op = "call" => ArgumentsInCaller(l, j)
            /\ (l[j].op = "lookup" /\ l[j].d >= 1 /\ MakesBefore(l, i, j) = {})
               => \A k \in 1..Len(l[i].params) :
                      ToLower(l[i].params[k]) = l[j].name
                      => /\ l[j].found <=> k <= Len(l[i].args)
                         /\ l[j].found => l[j].val = l[i].args[k]

\* a call with more arguments than parameters whose argument was a variable of
\* the caller and whose parameter was looked up, and a call with fewer arguments
\* than parameters whose unmatched parameter was looked up
C15_Witness ==
    \E r \in RunIds : \E j \in 1..Len(runs[r].log) :
        LET l == runs[r].log
            i == EnclosingCall(l, j)
        IN  /\ l[j].op = "lookup" /\ l[j].d >= 1
            /\ Len(l[i].params) = 2
            /\ \/ /\ Len(l[i].args) = 3
                   /\ l[j].found /\ l[j].name = ToLower(l[i].params[1])
                   /\ l[i - 1].op = "lookup" /\ l[i - 1].val = l[j].val
               \/ /\ Len(l[i].args) = 1
                   /\ ~l[j].found /\ l[j].name = ToLower(l[i].params[2])

\* C16: a run in which a procedure was called with fewer arguments than it has
\* parameters does not complete as if nothing had happened: it fails, or an
\* error message is in the output.
C16_MissingArgumentsFlagged ==
    \A r \in RunIds :
        (/\ r = Len(runs)
         /\ \E i \in 1..Len(runs[r].log) :
                /\ runs[r].log[i].op = "call"
                /\ Len(runs[r].log[i].args) < Len(runs[r].log[i].params))
        => \/ runs[r].status # "completed"
           \/ \E m \in 1..Len(output) : output[m].kind = "error"

\* ---- REPEAT
\* the calls of the turtle in a stretch of a run's history, in order
TurtleOpsOf(t) ==
    LET sel == SelectSeq(t, LAMBDA x : x.ev = "exec" /\ x.sig \in {"forward", "right"})
    IN  [i \in DOMAIN sel |-> [kind |-> sel[i].sig, arg |-> sel[i].val.value]]

\* the part of a run's history that belongs to its top-level command number c
CommandSegment(t, c) ==
    LET from == CHOOSE i \in DOMAIN t : t[i].ev = "command" /\ t[i].val.value = c
        later == {i \in DOMAIN t : i > from /\ t[i].ev = "command"}
        to == IF later = {} THEN Len(t) + 1 ELSE CHOOSE i \in later : \A j \in later : i <= j
    IN  SubSeq(t, from + 1, to - 1)

\* the tasks that command c of run r gave to the turtle's queue, in the order of the queue
SubmittedOf(r, c) ==
    LET sel == SelectSeq(events, LAMBDA x : x.ev = "submit" /\ x.run = r /\ x.cmd = c)
    IN  [i \in DOMAIN sel |-> [kind |-> sel[i].kind, arg |-> sel[i].arg]]

\* a REPEAT of a literal count over FORWARD, BACK and RIGHT of literal numbers
IsLiteralRepeat(cmd) ==
    /\ cmd.k = "repeat"
    /\ cmd.args[1].k = "num"
    /\ \A i \in DOMAIN cmd.body :
           cmd.body[i].k \in {"forward", "back", "right"} /\ cmd.body[i].args[1].k = "num"

\* what one pass over the block asks of the turtle
BlockOps(body) ==
    [i \in DOMAIN body |->
        [kind |-> IF body[i].k = "right" THEN "right" ELSE "forward",
         arg |-> IF body[i].k = "back" THEN 0 - body[i].args[1].v ELSE body[i].args[1].v]]

RECURSIVE Times(_, _)
Times(n, ops) == IF n <= 0 THEN <<>> ELSE ops \o Times(n - 1, ops)

\* C17: a REPEAT n [block] that has executed has called the turtle with the block's
\* commands n times over, in order, and these calls are in the turtle's one queue in
\* that order
C17_RepeatExecutesBlockNTimes ==
    \A r \in DOMAIN runs :
        \A k \in DOMAIN runs[r].executed :
            LET c == runs[r].executed[k]
                cmd == runs[r].program.commands[c]
            IN  IsLiteralRepeat(cmd) =>
                    /\ TurtleOpsOf(CommandSegment(runs[r].trace, c))
                           = Times(cmd.args[1].v, BlockOps(cmd.body))
                    /\ SubmittedOf(r, c) = Times(cmd.args[1].v, BlockOps(cmd.body))

\* REPEAT 3 [ RIGHT 90 BACK 1 RIGHT 45 ] has executed and called the turtle nine times
C17_Witness ==
    \E r \in DOMAIN runs :
        /\ runs[r].program = Parse(TurnBackTokens)
        /\ runs[r].executed = <<1>>
        /\ Len(SubmittedOf(r, 1)) = 9

\* ---- the square by a procedure
\* new Context(turtle, output)
NewContext ==
    [sig |-> "ok", val |-> Undefined, msg |-> "", vars |-> EmptyMap, procs |-> EmptyMap,
     hasOutput |-> FALSE, ops |-> <<>>, out |-> <<>>, trace |-> <<>>, log |-> <<>>,
     depth |-> 0]

\* program.execute(ctx): the commands one after another in one Context
ProgramExecute(pr) == executeAll(pr.commands, NewContext)

\* what a user sees of an execution: how it ended, the calls of the turtle in order,
\* and the messages
Behaviour(e) == [sig |-> e.sig, ops |-> e.ops, out |-> e.out]

\* C18: the program that parse makes of TO SQ :S REPEAT 4 [ FORWARD :S RIGHT 90 ] END
\* SQ d has no parse error and executes as REPEAT 4 [ FORWARD d RIGHT 90 ] does: it
\* ends without an error, calls the turtle with the same operations in the same
\* order, which leave the turtle in the same state, and prints the same messages
C18_SqIsRepeat ==
    \A d \in 1..Side :
        (returned /\ tokens = SqTokens(d)) =>
            /\ errors = <<>>
            /\ Behaviour(ProgramExecute(Program(commands, errors)))
                   = Behaviour(ProgramExecute(Parse(SquareTokens(4, d))))

\* parse has returned the program of SQ Side, and its execution calls the turtle
C18_Witness ==
    /\ returned /\ tokens = SqTokens(Side)
    /\ Len(commands) = 2
    /\ ProgramExecute(Program(commands, errors)).ops # <<>>

\* ---- the round trip and the square on the canvas
\* the pose of the turtle as event number i of the history saw it
PoseAt(i) == [position |-> events[i].position, angle |-> events[i].angle]

\* a FORWARD d and the BACK d that the same run asked of the turtle next
RoundTrips ==
    {p \in TaskIds \X TaskIds :
        /\ p[1] < p[2]
        /\ LET a == events[EventAt("submit", p[1])]
               b == events[EventAt("submit", p[2])]
           IN  /\ a.kind = "forward" /\ a.arg > 0
               /\ b.kind = "forward" /\ b.arg = 0 - a.arg
               /\ b.run = a.run
               /\ \A c \in TaskIds :
                      (p[1] < c /\ c < p[2]) => events[EventAt("submit", c)].run # a.run}

\* C19: once a FORWARD d and the BACK d that follows it have both completed, the
\* turtle is where it was when the FORWARD started, with the heading it had then
C19_RoundTrip ==
    \A p \in RoundTrips :
        (HasEvent("finish", p[1]) /\ HasEvent("finish", p[2])) =>
            PoseAt(Max(EventAt("finish", p[1]), EventAt("finish", p[2])))
                = PoseAt(EventAt("start", p[1]))

\* the tasks that command c of run r put in the queue
TasksOf(r, c) ==
    {id \in TaskIds : LET e == events[EventAt("submit", id)] IN e.run = r /\ e.cmd = c}

\* the same direction: headings are compared as angles of the circle
SameHeading(a, b) == a % 360 = b % 360

\* C20: a REPEAT 4 [ FORWARD Side RIGHT 90 ] whose first motion started at (0,0)
\* heading up (-90 degrees on the canvas) has, when all its eight motions have
\* completed, the turtle at (0,0) with the heading up
C20_SquareCloses ==
    \A r \in DOMAIN runs :
        \A c \in DOMAIN runs[r].program.commands :
            LET tasks == TasksOf(r, c)
                first == CHOOSE id \in tasks : \A other \in tasks : id <= other
                done == CHOOSE id \in tasks :
                            \A other \in tasks : EventAt("finish", other) <= EventAt("finish", id)
            IN  (/\ runs[r].program.commands[c] = SquareProgram.commands[1]
                 /\ tasks # {}
                 /\ \A id \in tasks : HasEvent("finish", id)
                 /\ PoseAt(EventAt("start", first)) = [position |-> Point(0, 0), angle |-> -90])
                => /\ events[EventAt("finish", done)].position = Point(0, 0)
                   /\ SameHeading(events[EventAt("finish", done)].angle, -90)

\* ---- IFELSE
\* a compared with b, as arithmetic has it
Compares(a, o, b) ==
    CASE o = "<" -> a < b
      [] o = ">" -> a > b
      [] o = "<=" -> a <= b
      [] o = ">=" -> a >= b
      [] o = "==" -> a = b
      [] o = "!=" -> a # b

\* the one call of the turtle a program makes that moves it by d
OneMove(d) == <<[kind |-> "forward", arg |-> d]>>

\* C21: the program that parse makes of IFELSE a op b [ FORWARD 10 ] [ BACK 10 ] has
\* no parse error and its execution ends without an error having called the turtle
\* exactly once: forward(10) when a op b is true, forward(-10) (a move backward,
\* and no move forward) when it is false; with a number as the condition, the
\* first block runs when the number is not 0
C21_IfElseOneBlock ==
    /\ \A a \in 0..MaxOperand, b \in 0..MaxOperand, o \in ComparisonOperators :
          (returned /\ tokens = IfElseTokens(Operation(a, o, b), 10)) =>
              /\ errors = <<>>
              /\ ProgramExecute(Program(commands, errors)).sig = "ok"
              /\ ProgramExecute(Program(commands, errors)).ops
                     = OneMove(IF Compares(a, o, b) THEN 10 ELSE -10)
    /\ \A a \in 0..MaxOperand :
          (returned /\ tokens = IfElseTokens(<<Number(a)>>, 10)) =>
              /\ errors = <<>>
              /\ ProgramExecute(Program(commands, errors)).sig = "ok"
              /\ ProgramExecute(Program(commands, errors)).ops
                     = OneMove(IF a # 0 THEN 10 ELSE -10)

\* parse has returned the program of IFELSE 1 > 2 [ FORWARD 10 ] [ BACK 10 ], and its
\* execution moves the turtle backward
C21_Witness ==
    /\ returned /\ tokens = IfElseTokens(Operation(1, ">", 2), 10)
    /\ Len(commands) = 1 /\ commands[1].k = "ifelse"
    /\ ProgramExecute(Program(commands, errors)).ops = OneMove(-10)

\* ---- division
\* the number the one FORWARD of the program gave the turtle
Distance(e) == e.trace[Len(e.trace)].val

\* the number v is n / d
IsQuotient(v, n, d) ==
    /\ v.type = "Number"
    /\ v.den > 0
    /\ v.value * d = n * v.den

\* the execution e failed on a division by zero before it called the turtle
DivisionByZero(e) == e.sig = "error" /\ e.msg = "Division by zero" /\ e.ops = <<>>

\* C22: the execution of FORWARD a / b calls the turtle with the quotient a / b when
\* b is not 0, whole or not, and fails with "Division by zero" when b is 0; so it is
\* with a negative dividend (FORWARD - a / b) and with a dividend that is itself a
\* quotient (FORWARD ( a / b ) / c)
C22_Division ==
    LET e == ProgramExecute(Program(commands, errors))
    IN  /\ \A a \in 0..MaxOperand, b \in 0..MaxOperand :
              /\ (returned /\ tokens = ForwardTokens(Operation(a, "/", b))) =>
                    /\ errors = <<>>
                    /\ IF b = 0 THEN DivisionByZero(e)
                       ELSE e.sig = "ok" /\ Len(e.ops) = 1 /\ IsQuotient(Distance(e), a, b)
              /\ (returned
                     /\ tokens = ForwardTokens(<<Operator("-")>> \o Operation(a, "/", b))) =>
                    /\ errors = <<>>
                    /\ IF b = 0 THEN DivisionByZero(e)
                       ELSE e.sig = "ok" /\ Len(e.ops) = 1 /\ IsQuotient(Distance(e), -a, b)
        /\ \A a \in 0..MaxOperand, b \in 0..MaxOperand, c \in 0..MaxOperand :
              (returned
                 /\ tokens = ForwardTokens(Parenthesized(Operation(a, "/", b))
                                               \o <<Operator("/"), Number(c)>>)) =>
                    /\ errors = <<>>
                    /\ IF b = 0 \/ c = 0 THEN DivisionByZero(e)
                       ELSE e.sig = "ok" /\ Len(e.ops) = 1
                            /\ IsQuotient(Distance(e), a, b * c)

\* parse has returned the program of FORWARD 1 / 2, whose execution calls the turtle
\* with a number that is not whole
C22_Witness ==
    /\ returned /\ tokens = ForwardTokens(Operation(1, "/", 2))
    /\ ProgramExecute(Program(commands, errors)).sig = "ok"
    /\ Distance(ProgramExecute(Program(commands, errors))).den = 2

\* parse has returned the program of FORWARD 1 / 0, whose execution fails
C22_WitnessZero ==
    /\ returned /\ tokens = ForwardTokens(Operation(1, "/", 0))
    /\ DivisionByZero(ProgramExecute(Program(commands, errors)))

\* ---- chains of operators
\* the tokens are FORWARD a op1 b op2 c
IsChain(toks) ==
    /\ Len(toks) = 6
    /\ toks[1] = Command("forward")
    /\ toks[2].type = "NUMBER" /\ toks[3].type = "OPERATOR" /\ toks[4].type = "NUMBER"
    /\ toks[5].type = "OPERATOR" /\ toks[6].type = "NUMBER"

\* C23: the execution of FORWARD a op1 b op2 c gives the turtle the value of
\* (a op1 b) op2 c, and fails on a division by zero exactly when (a op1 b) op2 c
\* divides by zero
C23_LeftToRight ==
    (returned /\ IsChain(tokens)) =>
        LET e == ProgramExecute(Program(commands, errors))
            a == Num(ParseFloat(tokens[2].value))
            b == Num(ParseFloat(tokens[4].value))
            c == Num(ParseFloat(tokens[6].value))
            o1 == tokens[3].value
            o2 == tokens[5].value
        IN  /\ errors = <<>>
            /\ IF (o1 = "/" /\ b.value = 0) \/ (o2 = "/" /\ c.value = 0)
               THEN DivisionByZero(e)
               ELSE /\ e.sig = "ok"
                    /\ Distance(e) = ApplyOperator(o2, ApplyOperator(o1, a, b), c)

\* ---- comments
\* the text without its comments: the characters from a ";" up to the end of its
\* line are left out (the end of the line stays)
RECURSIVE Uncommented(_, _)
Uncommented(t, inComment) ==
    IF t = <<>> THEN <<>>
    ELSE IF Head(t) = "\n" THEN <<"\n">> \o Uncommented(Tail(t), FALSE)
    ELSE IF inComment \/ Head(t) = ";" THEN Uncommented(Tail(t), TRUE)
    ELSE <<Head(t)>> \o Uncommented(Tail(t), FALSE)

\* C24: the tokens tokenize returns are the tokens of the text without its
\* comments: nothing from a ";" to the end of its line becomes a token
C24_CommentsDropped ==
    lexing = "done" => tokens = Tokenize(Uncommented(input, FALSE))

\* ---- the flood fill
\* the pixels of the canvas, by number
PixelNumbers == 0..(CanvasWidth * CanvasHeight - 1)
PixelNumber(q) == q.y * CanvasWidth + q.x
OnCanvas(q) == q.x \in 0..(CanvasWidth - 1) /\ q.y \in 0..(CanvasHeight - 1)

\* pixels j and k share a side
Adjacent(j, k) ==
    \/ j \div CanvasWidth = k \div CanvasWidth /\ Abs(j - k) = 1
    \/ j % CanvasWidth = k % CanvasWidth /\ Abs(j - k) = CanvasWidth

\* the pixels of data joined to the pixels of region by a path of side-sharing
\* pixels of the colour c
RECURSIVE Connected(_, _, _)
Connected(data, region, c) ==
    LET more == {k \in PixelNumbers \ region :
                    data[k + 1] = c /\ \E j \in region : Adjacent(j, k)}
    IN  IF more = {} THEN region ELSE Connected(data, region \cup more, c)

\* the region of the turtle's pixel in data: empty when the turtle is off the canvas
Region(data, p) ==
    IF OnCanvas(Pixel(p))
    THEN Connected(data, {PixelNumber(Pixel(p))}, data[PixelNumber(Pixel(p)) + 1])
    ELSE {}

\* the colour the fill is to give a pixel: the pen's colour when painting, the
\* background's when erasing, the inverse of the pixel (alpha kept) when reversing
Filled(pixel) ==
    CASE penMode = "paint" -> Rgba(color)
      [] penMode = "erase" -> Rgba(backgroundColor)
      [] penMode = "reverse" -> <<255 - pixel[1], 255 - pixel[2], 255 - pixel[3], pixel[4]>>

\* C25: a fill task that runs when the colour it fills with (the pen's when
\* painting, the background's when erasing) is the colour of the turtle's pixel
\* leaves every pixel as it was; so does a fill task that runs directly after
\* another
C25_FillIdempotent ==
    /\ (/\ fills > 0
        /\ penMode # "reverse"
        /\ OnCanvas(Pixel(position))
        /\ before[PixelNumber(Pixel(position)) + 1] = Filled(Transparent))
          => raster = before
    /\ (fills > 1 /\ penMode # "reverse") => raster = before

\* a second fill task has run on a canvas the first had changed
C25_Witness ==
    /\ fills = 2
    /\ penMode = "erase"
    /\ OnCanvas(Pixel(position))
    /\ raster = before
    /\ \E k \in PixelNumbers : raster[k + 1] = Rgba(backgroundColor)

\* C26: a fill task gives the pixels of the region of the turtle's pixel (those
\* joined to it by side-sharing pixels of exactly its RGBA) the fill colour, and
\* leaves every other pixel as it was
C26_FillRegion ==
    fills > 0 =>
        \A k \in PixelNumbers :
            raster[k + 1] = IF k \in Region(before, position)
                            THEN Filled(before[k + 1])
                            ELSE before[k + 1]

\* a fill task has changed some pixels and left others, one of them a pixel of the
\* seed's colour that touches the region only at a corner
C26_Witness ==
    /\ fills = 1
    /\ \E j \in PixelNumbers, k \in PixelNumbers :
          /\ raster[j + 1] # before[j + 1]
          /\ raster[k + 1] = before[k + 1]
          /\ before[k + 1] = before[j + 1]
          /\ Abs((j \div CanvasWidth) - (k \div CanvasWidth)) = 1
          /\ Abs((j % CanvasWidth) - (k % CanvasWidth)) = 1

\* ---- the Go turtles
Normalized(a) == 0 <= a /\ a < 360

\* C27: whatever Left or Right call changes the angle of a Go turtle, with an
\* angle below or above 360, the new angle is at least 0 and less than 360
C27_AnglesNormalized ==
    [][/\ goAngle' # goAngle => Normalized(goAngle')
       /\ goHeading' # goHeading => Normalized(goHeading')]_vars

\* ---- cancellation
\* a pending frame callback of a task that is not in flight: the task was in flight
\* when cancelAnimation ran
Stale(f) == f.task.id \notin active

\* C28: when the pending frame callback of a motion task that was cancelled
\* mid-animation fires, it leaves the turtle's position as it is, whatever was
\* submitted since the cancellation
C28_CancelHonoured ==
    [][\A f \in frames : (Stale(f) /\ f \notin frames') => position' = position]_vars

\* ---- queued effects
\* the tasks whose closure writes angle.current: those of right, of setHeading and
\* of clear
WritesHeading(kind) == kind \in {"right", "setHeading", "clear"}

\* C29: the heading changes only in a step in which a queued task that writes the
\* heading is called: no method of the turtle handle changes it when a command
\* calls the method
C29_EffectsQueued ==
    [][angle' # angle =>
          \E i \in (Len(events) + 1)..Len(events') :
              events'[i].ev = "start" /\ WritesHeading(events'[i].kind)]_vars

\* ---- the frames of a motion
\* the frames a motion task requested when it was called: its first
FirstFrames == {f \in frames' \ frames : f.currentStep = 1}

\* the distance of the motion: forward's distance, and for setPosition the
\* Manhattan distance from the start to the end
Travel(f) == Abs(f.end.x - f.start.x) + Abs(f.end.y - f.start.y)

\* C30 as written: a motion task that is called has at least 5 steps and at most
\* 5 times the speed the slider is at, for every speed from 0 to 100
C30_StepsClamped ==
    [][\A f \in FirstFrames : 5 <= f.steps /\ f.steps <= animationSpeed * 5]_vars

\* C30 amended: a motion task that is called has at least 5 steps, at most 5 times
\* the speed when the speed is 1 or more and exactly 5 when the speed is 0, and
\* never more than the larger of 5 and its distance
C30_StepsFloored ==
    [][\A f \in FirstFrames :
          /\ 5 <= f.steps
          /\ f.steps <= Max(5, animationSpeed * 5)
          /\ f.steps <= Max(5, Travel(f))]_vars

\* a motion longer than 5 times the speed is under way with 5 times the speed steps,
\* more than 5
C30_Witness ==
    \E f \in frames :
        /\ f.steps = animationSpeed * 5
        /\ f.steps > 5
        /\ Travel(f) > f.steps

\* ---- where a motion ends
\* C31: when a forward task that nothing cancelled has completed, the turtle is the
\* requested distance along the heading from where the task started, whether the
\* distance is whole or not, forwards or backwards
C31_ForwardArrives == fwdStatus = "done" => fwdOffset = fwdDistance

\* ---- SETHEADING
\* the heading the turtle stores: angle.current is the heading less 90
Heading(a) == a + 90

\* C32: when the task of a SETHEADING h has run, the stored heading is h reduced
\* modulo 360: less than a full turn away from 0, whatever h is
C32_SetHeadingNormalizes ==
    \A i \in 1..Len(events) :
        (events[i].ev = "finish" /\ events[i].kind = "setHeading")
        => /\ -360 < Heading(events[i].angle)
           /\ Heading(events[i].angle) < 360

\* ---- after a cancellation
\* C33: once the user has cancelled a run, no top-level command of that run is
\* executed and no task is put in the queue for it
C33_CancelStopsRun ==
    \A i \in 1..Len(events) :
        events[i].ev = "cancel" =>
            \A j \in (i + 1)..Len(events) :
                events[j].ev \in {"command", "submit"} => events[j].run # events[i].run

\* ---- tasks that are never called
\* the tasks waiting in the queue
Queued == {animationQueue[i].id : i \in 1..Len(animationQueue)}

\* the user has cancelled nothing so far
NoCancel == \A i \in 1..Len(events) : events[i].ev # "cancel"

\* C34: as long as nothing is cancelled, a task that was submitted and is no longer
\* in the queue has been called: no task takes later tasks out of the queue
C34_NoTaskDiscarded ==
    NoCancel => \A id \in TaskIds : id \in Queued \/ HasEvent("start", id)

\* ---- isAnimating while a run goes on
\* run r has a top-level command still to execute: its setTimeout is pending
HasPendingCommand(r) ==
    \E t \in execTimers : t.run = r /\ t.index <= Len(runs[r].program.commands)

\* run r has a task that was submitted and has not completed
HasUnfinishedTask(r) ==
    \E id \in TaskIds :
        events[EventAt("submit", id)].run = r /\ ~HasEvent("finish", id)

\* C35: as long as nothing is cancelled, isAnimating is true while a run has a
\* top-level command still to execute or a task that has not completed, and no two
\* runs have commands still to execute
C35_AnimatingWhileRunning ==
    NoCancel =>
        /\ \A r \in RunIds : (HasPendingCommand(r) \/ HasUnfinishedTask(r)) => isAnimating
        /\ \A r1, r2 \in RunIds : (HasPendingCommand(r1) /\ HasPendingCommand(r2)) => r1 = r2

\* ---- the end of a run
\* nothing is left to happen: no task waits, no frame, wait or command timer is
\* pending
Quiescent ==
    /\ animationQueue = <<>>
    /\ frames = {}
    /\ waitTimers = {}
    /\ execTimers = {}

\* C36: when every run has executed its last command and nothing is left to happen,
\* isAnimating is false: onAnimationEnd was signalled
C36_AnimationEnds ==
    (/\ Quiescent
     /\ runs # <<>>
     /\ \A r \in RunIds : runs[r].status = "completed")
    => ~isAnimating

\* ---- HIDETURTLE and SHOWTURTLE
\* the HIDETURTLE and SHOWTURTLE commands run r has executed, in order
VisibilityCommands(r) ==
    SelectSeq(runs[r].trace,
              LAMBDA x : x.ev = "exec" /\ x.sig \in {"hideTurtle", "showTurtle"})

\* C37: when the only run, which nothing cancelled, has completed and the queue has
\* drained, the turtle is visible exactly if the last of the HIDETURTLE and
\* SHOWTURTLE commands the run executed was SHOWTURTLE
C37_LastVisibilityWins ==
    (/\ NoCancel
     /\ Quiescent
     /\ Len(runs) = 1
     /\ runs[1].status = "completed"
     /\ VisibilityCommands(1) # <<>>)
    => (IsTurtleVisible(State)
           <=> VisibilityCommands(1)[Len(VisibilityCommands(1))].sig = "showTurtle")

\* ---- procedure calls as statements
\* a token a statement can begin with that is also a primary expression: a
\* procedure name, or a command that returns a value
StartsValue(token) ==
    \/ token.type = "PROCEDURE"
    \/ /\ token.type = "COMMAND"
       /\ ToLower(token.value) \in CommandNames
       /\ CommandSpec(ToLower(token.value)).returns

\* the number of tokens the k-th iteration of the loop of parse went forward
Advance(k) == (IF k < Len(attempts) THEN attempts[k + 1].pos ELSE pi) - attempts[k].pos

\* C38: a procedure call at the start of a statement that is followed by a procedure
\* name or by a value-returning command takes the name token only, so that the
\* next statement is parsed as a command of its own
C38_CallTakesNoStatement ==
    \A k \in 1..Len(attempts) :
        LET pos == attempts[k].pos
        IN  (/\ tokens[pos + 1].type = "PROCEDURE"
             /\ pos + 1 < Len(tokens)
             /\ StartsValue(tokens[pos + 2]))
            => Advance(k) = 1

\* ---- the loops of the parser
\* a parser function that returned a value went forward at least one token
Consumed(r) == r.st = "ok" => r.n >= 1

\* what the loops inside the parser go forward by: the tokens consumed by the
\* expression, item, argument or command parsed at position start
NestedConsumed(toks, start) ==
    /\ Consumed(ParseCommand(toks, start))
    /\ Consumed(ParseProcedureDefinition(toks, start))
    /\ Consumed(ParseExpression("Number", toks, start))
    /\ Consumed(ParseExpression("Any", toks, start))
    /\ Consumed(ParsePrimaryExpression(toks, start))
    /\ Consumed(ParseList(toks, start))
    /\ Consumed(ParseBlock(toks, start))

\* C39: every iteration of the loop of parse goes forward at least one token, and
\* so does every iteration of the loops over the commands of a block or of a
\* procedure body, the items of a list and the arguments of a command or a call,
\* which go forward by what the function they call consumed: parse comes to an
\* end after at most one iteration for each token
C39_ParseAdvances ==
    /\ \A k \in 1..Len(attempts) : Advance(k) >= 1
    /\ Len(attempts) <= Len(tokens)
    /\ returned => \A start \in 0..(Len(tokens) - 1) : NestedConsumed(tokens, start)

\* parse has returned after an iteration that ended in the catch clause and one that
\* parsed a call whose argument loop went round twice
C39_Witness ==
    /\ returned
    /\ \E k \in 1..Len(attempts) : attempts[k].st = "throw"
    /\ \E j \in 1..Len(code.commands) :
           code.commands[j].k = "call" /\ Len(code.commands[j].args) = 2

\* ---- the loop of fill
\* C40: the loop of a fill task writes no pixel twice, and it comes to an end: the
\* seed and the four neighbours of every pixel written are all that is ever put on
\* the stack, so that there are at most 1 + 4 * width * height iterations
C40_FillWritesOnce ==
    /\ \A k \in DOMAIN fillWrites : fillWrites[k] <= 1
    /\ fillPops <= 1 + 4 * CanvasWidth * CanvasHeight
    /\ Len(fillStack) <= 1 + 3 * CanvasWidth * CanvasHeight

\* a fill in reverse mode has come to its end after it wrote two pixels or more and
\* met a pixel of another colour
C40_Witness ==
    /\ fillStatus = "done"
    /\ penMode = "reverse"
    /\ Cardinality({k \in DOMAIN fillWrites : fillWrites[k] = 1}) >= 2
    /\ \E k \in DOMAIN fillWrites : fillWrites[k] = 0
    /\ raster # before

\* the loop taken step by step leaves the canvas as the fill task does
FillLoopAgrees ==
    fillStatus = "done" => raster = Fill(before, position, penMode, color, backgroundColor)

====
